---------------------------- MODULE Spec2Model ----------------------------
(***************************************************************************)
(* Tennis analytics pipeline: provider API -> extractor -> loader ->       *)
(* relational store.  The extractor's three operations are pure functions  *)
(* of the upstream response; the loader's full load is a sequential        *)
(* process whose steps are the calls of load_all_data.                     *)
(***************************************************************************)
EXTENDS Integers, Sequences, FiniteSets, TLC

(***************************************************************************)
(* Values.  A JSON object is a function from its keys; a key the provider  *)
(* left out is outside the function's domain.  None is Python's None (and  *)
(* pandas' missing value in an object column).                             *)
(***************************************************************************)
None == "None"

\* dict.get(key): the value, or None when the key is absent
Get(d, k) == IF k \in DOMAIN d THEN d[k] ELSE None

\* Python truthiness of a string-or-None value: None and '' are falsy
Truthy(v) == v # None /\ v # ""

\* Python truthiness of a dict: the empty dict is falsy
TruthyDict(d) == DOMAIN d # {}

\* the keys K of the object d
Restrict(d, K) == [k \in K \cap DOMAIN d |-> d[k]]

RECURSIVE SelectRows(_, _)
\* the rows of s that satisfy Keep(row), in order; Keep is given as the set of kept rows
SelectRows(s, kept) ==
    IF s = <<>> THEN <<>>
    ELSE IF Head(s) \in kept THEN <<Head(s)>> \o SelectRows(Tail(s), kept)
    ELSE SelectRows(Tail(s), kept)

\* the elements of a sequence
Range(s) == {s[i] : i \in 1..Len(s)}

RECURSIVE Concat(_)
\* the concatenation of a sequence of sequences
Concat(ss) == IF ss = <<>> THEN <<>> ELSE Head(ss) \o Concat(Tail(ss))

\* the sequences over S of length at most n
SeqUpTo(S, n) == UNION {[1..k -> S] : k \in 0..n}

(***************************************************************************)
(* pandas DataFrame: its rows in order, and whether it has columns at all  *)
(* (pd.DataFrame() and pd.DataFrame([]) have none).                        *)
(***************************************************************************)
EmptyDataFrame == [cols |-> FALSE, rows |-> <<>>]

\* pd.DataFrame(list of dicts)
DataFrame(rows) == [cols |-> rows # <<>>, rows |-> rows]

\* df.empty
IsEmpty(df) == df.rows = <<>>

\* len(df)
LenDF(df) == Len(df.rows)

\* outcome of a pandas call: the frame, or the exception it raised
Ok(df) == [raised |-> "none", df |-> df]
KeyError == [raised |-> "KeyError", df |-> EmptyDataFrame]

RECURSIVE KeepFirst(_, _, _)
\* rows whose key value was not seen in an earlier row
KeepFirst(rows, key, seen) ==
    IF rows = <<>> THEN <<>>
    ELSE IF Head(rows)[key] \in seen THEN KeepFirst(Tail(rows), key, seen)
    ELSE <<Head(rows)>> \o KeepFirst(Tail(rows), key, seen \cup {Head(rows)[key]})

\* df.drop_duplicates(subset=[key]): an empty frame is returned as it is
drop_duplicates(df, key) ==
    IF IsEmpty(df) THEN Ok(df)
    ELSE Ok([cols |-> df.cols, rows |-> KeepFirst(df.rows, key, {})])

RECURSIVE DropNaRows(_, _)
\* rows with no missing value in the subset columns
DropNaRows(rows, subset) ==
    IF rows = <<>> THEN <<>>
    ELSE IF \A c \in subset : Head(rows)[c] # None
         THEN <<Head(rows)>> \o DropNaRows(Tail(rows), subset)
         ELSE DropNaRows(Tail(rows), subset)

\* df.dropna(subset=...): KeyError when the frame lacks a subset column
dropna(df, subset) ==
    IF ~df.cols THEN KeyError
    ELSE Ok([cols |-> TRUE, rows |-> DropNaRows(df.rows, subset)])

\* pd.DataFrame(rows).drop_duplicates(subset=[key]).dropna(subset=subset)
DedupDropNa(rows, key, subset) ==
    LET d == drop_duplicates(DataFrame(rows), key)
    IN  IF d.raised # "none" THEN d ELSE dropna(d.df, subset)

\* result of an extraction operation: two frames, or the exception raised
Extracted(a, b) ==
    IF a.raised # "none" THEN [raised |-> a.raised, first |-> EmptyDataFrame, second |-> EmptyDataFrame]
    ELSE IF b.raised # "none" THEN [raised |-> b.raised, first |-> EmptyDataFrame, second |-> EmptyDataFrame]
    ELSE [raised |-> "none", first |-> a.df, second |-> b.df]

(***************************************************************************)
(* Upstream responses.  Absent is the client's None; a response is         *)
(* otherwise a JSON object that may or may not carry its top-level key.    *)
(***************************************************************************)
Absent == [kind |-> "absent"]
NoKey == [kind |-> "nokey"]
Body(list) == [kind |-> "body", list |-> list]

\* `not data or '<key>' not in data`
NoData(data) == data.kind # "body"

(***************************************************************************)
(* TennisDataExtractor.get_competitions_data                               *)
(***************************************************************************)
\* comp_data.get('category', {})
category_info(comp_data) == IF "category" \in DOMAIN comp_data THEN comp_data["category"] ELSE <<>>

RECURSIVE all_categories(_)
\* one category record per entry whose category has a truthy id and name
all_categories(list) ==
    IF list = <<>> THEN <<>>
    ELSE LET ci == category_info(Head(list))
         IN  (IF TruthyDict(ci) /\ Truthy(Get(ci, "id")) /\ Truthy(Get(ci, "name"))
              THEN <<[category_id |-> ci["id"], category_name |-> ci["name"]]>>
              ELSE <<>>) \o all_categories(Tail(list))

\* the competition record of one entry, absent fields as None
competition_record(comp_data) ==
    LET ci == category_info(comp_data)
    IN  [competition_id |-> Get(comp_data, "id"),
         competition_name |-> Get(comp_data, "name"),
         parent_id |-> Get(comp_data, "parent_id"),
         type |-> Get(comp_data, "type"),
         gender |-> Get(comp_data, "gender"),
         category_id |-> IF TruthyDict(ci) THEN Get(ci, "id") ELSE None,
         level |-> Get(comp_data, "level")]

\* one competition record per entry
all_competitions(list) == [i \in 1..Len(list) |-> competition_record(list[i])]

CompetitionRequired == {"competition_id", "competition_name", "type", "gender"}

NoFrames == [raised |-> "none", first |-> EmptyDataFrame, second |-> EmptyDataFrame]

get_competitions_data(data) ==
    IF NoData(data) THEN NoFrames
    ELSE Extracted(DedupDropNa(all_categories(data.list), "category_id", {"category_id"}),
                   dropna(DataFrame(all_competitions(data.list)), CompetitionRequired))

(***************************************************************************)
(* TennisDataExtractor.get_complexes_data                                  *)
(***************************************************************************)
VenueChecked == {"id", "name", "city_name", "country_name", "country_code", "timezone"}

VenueRequired ==
    {"venue_id", "venue_name", "city_name", "country_name", "country_code", "timezone", "complex_id"}

\* complex_data.get('venues', [])
venues_of(complex_data) == IF "venues" \in DOMAIN complex_data THEN complex_data["venues"] ELSE <<>>

RECURSIVE venue_records(_, _)
\* one venue record per nested venue with every checked field truthy
venue_records(venues, complex_id) ==
    IF venues = <<>> THEN <<>>
    ELSE LET v == Head(venues)
         IN  (IF \A k \in VenueChecked : Truthy(Get(v, k))
              THEN <<[venue_id |-> v["id"], venue_name |-> v["name"], city_name |-> v["city_name"],
                      country_name |-> v["country_name"], country_code |-> v["country_code"],
                      timezone |-> v["timezone"], complex_id |-> complex_id]>>
              ELSE <<>>) \o venue_records(Tail(venues), complex_id)

RECURSIVE all_complexes(_)
\* one complex record per entry with a truthy id; the name is taken as it comes
all_complexes(list) ==
    IF list = <<>> THEN <<>>
    ELSE IF ~Truthy(Get(Head(list), "id")) THEN all_complexes(Tail(list))
    ELSE <<[complex_id |-> Head(list)["id"], complex_name |-> Get(Head(list), "name")]>>
         \o all_complexes(Tail(list))

RECURSIVE all_venues(_)
\* the venue records of every entry with a truthy id
all_venues(list) ==
    IF list = <<>> THEN <<>>
    ELSE IF ~Truthy(Get(Head(list), "id")) THEN all_venues(Tail(list))
    ELSE venue_records(venues_of(Head(list)), Head(list)["id"]) \o all_venues(Tail(list))

get_complexes_data(data) ==
    IF NoData(data) THEN NoFrames
    ELSE Extracted(DedupDropNa(all_complexes(data.list), "complex_id", {"complex_id"}),
                   DedupDropNa(all_venues(data.list), "venue_id", VenueRequired))

(***************************************************************************)
(* TennisDataExtractor.get_doubles_competitor_rankings_data                *)
(***************************************************************************)
CompetitorChecked == {"id", "name", "country", "country_code", "abbreviation"}

CompetitorRequired == {"competitor_id", "name", "country", "country_code", "abbreviation"}

RankingChecked == {"rank", "movement", "points", "competitions_played"}

RankingRequired == RankingChecked \cup {"competitor_id"}

\* ranking_category_entry.get('competitor_rankings', [])
competitor_rankings(group) ==
    IF "competitor_rankings" \in DOMAIN group THEN group["competitor_rankings"] ELSE <<>>

\* ranking_entry.get('competitor', {})
competitor_data(ranking_entry) ==
    IF "competitor" \in DOMAIN ranking_entry THEN ranking_entry["competitor"] ELSE <<>>

\* every ranking entry of every group, in order
ranking_entries(list) == Concat([i \in 1..Len(list) |-> competitor_rankings(list[i])])

RECURSIVE all_competitors(_)
\* one competitor record per entry whose competitor has every checked field truthy
all_competitors(entries) ==
    IF entries = <<>> THEN <<>>
    ELSE LET cd == competitor_data(Head(entries))
         IN  IF ~Truthy(Get(cd, "id")) THEN all_competitors(Tail(entries))
             ELSE (IF \A k \in CompetitorChecked : Truthy(Get(cd, k))
                   THEN <<[competitor_id |-> cd["id"], name |-> cd["name"], country |-> cd["country"],
                           country_code |-> cd["country_code"], abbreviation |-> cd["abbreviation"]]>>
                   ELSE <<>>) \o all_competitors(Tail(entries))

RECURSIVE all_rankings(_)
\* one ranking record per entry with a competitor id and all four numbers not None
all_rankings(entries) ==
    IF entries = <<>> THEN <<>>
    ELSE LET e == Head(entries)
             cd == competitor_data(e)
         IN  IF ~Truthy(Get(cd, "id")) THEN all_rankings(Tail(entries))
             ELSE (IF RankingChecked \subseteq DOMAIN e
                   THEN <<[rank |-> e["rank"], movement |-> e["movement"], points |-> e["points"],
                           competitions_played |-> e["competitions_played"],
                           competitor_id |-> cd["id"]]>>
                   ELSE <<>>) \o all_rankings(Tail(entries))

\* rankings rows carry numbers; only competitor_id can hold None
DropNaRankings(df) ==
    IF ~df.cols THEN KeyError
    ELSE Ok([cols |-> TRUE, rows |-> DropNaRows(df.rows, {"competitor_id"})])

get_doubles_competitor_rankings_data(data) ==
    IF NoData(data) THEN NoFrames
    ELSE Extracted(DedupDropNa(all_competitors(ranking_entries(data.list)), "competitor_id",
                               CompetitorRequired),
                   DropNaRankings(DataFrame(all_rankings(ranking_entries(data.list)))))


(***************************************************************************)
(* Bounded upstream responses: every entry is a complete provider entry    *)
(* with at most one key left out.                                          *)
(***************************************************************************)
MaxEntries == 2

CompetitionIds == {"c1", "c2"}
CategoryIds == {"k1"}
ComplexIds == {"x1", "x2"}
VenueIds == {"v1", "v2"}
CompetitorIds == {"A", "B", "C"}

\* d without the key k ("" leaves d whole)
Without(d, k) == Restrict(d, DOMAIN d \ {k})

FullCategory(k) == [id |-> k, name |-> "ATP"]

FullCompetition(c, cat) ==
    [id |-> c, name |-> "Open", parent_id |-> "c0", type |-> "doubles", gender |-> "men",
     category |-> cat, level |-> "atp_250"]

CompetitionKeys == {"id", "name", "parent_id", "type", "gender", "category", "level"}

CategoryInfos ==
    UNION {{FullCategory(k), Without(FullCategory(k), "id"), Without(FullCategory(k), "name")} :
           k \in CategoryIds}

CompetitionEntries ==
    {FullCompetition(c, cat) : c \in CompetitionIds, cat \in CategoryInfos}
    \cup {Without(FullCompetition(c, FullCategory(k)), m) :
          c \in CompetitionIds, k \in CategoryIds, m \in CompetitionKeys}

Responses(entries) == {Absent, NoKey} \cup {Body(l) : l \in SeqUpTo(entries, MaxEntries)}

CompetitionsResponses == Responses(CompetitionEntries)

FullVenue(v) ==
    [id |-> v, name |-> "Centre Court", city_name |-> "London", country_name |-> "England",
     country_code |-> "ENG", timezone |-> "Europe/London"]

FullVenues == {FullVenue(v) : v \in VenueIds}

VenueEntries == FullVenues \cup {Without(FullVenue(v), m) : v \in VenueIds, m \in VenueChecked}

\* nested venue lists: none, one venue, or a complete venue followed by any venue
VenueLists ==
    {<<>>} \cup {<<v>> : v \in VenueEntries} \cup {<<v, w>> : v \in FullVenues, w \in VenueEntries}

\* the short nested lists used inside longer responses
FewVenueLists == {<<>>, <<FullVenue("v1")>>, <<Without(FullVenue("v1"), "timezone")>>}

FullComplex(x, venues) == [id |-> x, name |-> "Arena", venues |-> venues]

ComplexKeys == {"id", "name", "venues"}

ComplexShapes(venueLists) ==
    {FullComplex(x, vl) : x \in ComplexIds, vl \in venueLists}
    \cup {Without(FullComplex(x, vl), m) : x \in ComplexIds, vl \in venueLists, m \in ComplexKeys}

ComplexEntries == ComplexShapes(FewVenueLists)

ComplexesResponses ==
    Responses(ComplexEntries) \cup {Body(<<e>>) : e \in ComplexShapes(VenueLists)}

CompetitorNames == {"n1", "n2"}

FullCompetitor(c, n) ==
    [id |-> c, name |-> n, country |-> "France", country_code |-> "FRA", abbreviation |-> "ABC"]

FullRanking(cd) ==
    [rank |-> 1, movement |-> 0, points |-> 100, competitions_played |-> 3, competitor |-> cd]

RankingKeys == RankingChecked \cup {"competitor"}

RankingEntries ==
    {FullRanking(FullCompetitor(c, "n1")) : c \in CompetitorIds}
    \cup {FullRanking(Without(FullCompetitor(c, "n1"), m)) : c \in CompetitorIds, m \in CompetitorChecked}
    \cup {Without(FullRanking(FullCompetitor(c, "n1")), m) : c \in CompetitorIds, m \in RankingKeys}

Group(entries) == [competitor_rankings |-> entries]

\* a ranking-category group without its competitor_rankings list
BareGroup == [name |-> "ATP"]

\* one group of up to MaxEntries entries, or two groups of at most one entry each
RankingsResponses ==
    {Absent, NoKey, Body(<<>>), Body(<<BareGroup>>)}
    \cup {Body(<<Group(l)>>) : l \in SeqUpTo(RankingEntries, MaxEntries)}
    \cup {Body(<<Group(l), g>>) : l \in SeqUpTo(RankingEntries, 1),
          g \in {BareGroup} \cup {Group(<<e>>) : e \in RankingEntries}}

(***************************************************************************)
(* Persistence schema (db_models.py) and the relational store.  A          *)
(* natural-keyed table is the set of its rows; competitor_rankings, whose  *)
(* key is the auto-incremented rank_id, is the sequence of its rows in     *)
(* rank_id order.                                                          *)
(***************************************************************************)
TableOrder ==
    <<"categories", "competitions", "complexes", "venues", "competitors", "competitor_rankings">>

Tables == {TableOrder[i] : i \in 1..Len(TableOrder)}

NaturalKeyed == Tables \ {"competitor_rankings"}

\* primary_key=True
PrimaryKey ==
    [categories |-> "category_id", competitions |-> "competition_id", complexes |-> "complex_id",
     venues |-> "venue_id", competitors |-> "competitor_id", competitor_rankings |-> "rank_id"]

\* nullable=False string columns (the integer columns of competitor_rankings always hold numbers)
NotNull ==
    [categories |-> {"category_id", "category_name"},
     competitions |-> {"competition_id", "competition_name", "type", "gender"},
     complexes |-> {"complex_id", "complex_name"},
     venues |-> {"venue_id", "venue_name", "city_name", "country_name", "country_code", "timezone"},
     competitors |-> {"competitor_id", "name", "country", "country_code", "abbreviation"},
     competitor_rankings |-> {}]

\* ForeignKey(...): the referencing column and the parent table, per child table
ForeignKey ==
    [categories |-> <<>>,
     competitions |-> <<"category_id", "categories">>,
     complexes |-> <<>>,
     venues |-> <<"complex_id", "complexes">>,
     competitors |-> <<>>,
     competitor_rankings |-> <<"competitor_id", "competitors">>]

\* create_db_tables on a fresh database
EmptyStore ==
    [categories |-> {}, competitions |-> {}, complexes |-> {}, venues |-> {}, competitors |-> {},
     competitor_rankings |-> <<>>]

\* the primary-key values present in a natural-keyed table
Keys(store, table) == {r[PrimaryKey[table]] : r \in store[table]}

\* whether the server accepts the row: NOT NULL columns and the foreign key
Accepts(store, table, record) ==
    /\ \A c \in NotNull[table] : record[c] # None
    /\ \/ ForeignKey[table] = <<>>
       \/ record[ForeignKey[table][1]] = None
       \/ record[ForeignKey[table][1]] \in Keys(store, ForeignKey[table][2])

(***************************************************************************)
(* DataLoader._insert_dataframe                                            *)
(***************************************************************************)
\* a merge that keeps one ranking row per competitor
merge_ranking_upsert(rows, table, record) ==
    IF table = "competitor_rankings"
    THEN Append(SelectSeq(rows, LAMBDA x : x.competitor_id # record.competitor_id), record)
    ELSE {r \in rows : r[PrimaryKey[table]] # record[PrimaryKey[table]]} \cup {record}

\* a merge that replaces the table by the record
merge_replacing(rows, table, record) ==
    IF table = "competitor_rankings" THEN <<record>> ELSE {record}

\* a merge that only ever inserts
merge_insert_only(rows, table, record) ==
    IF table = "competitor_rankings" THEN Append(rows, record) ELSE rows \cup {record}

\* session.merge(instance): insert when the primary key is new, otherwise replace the row;
\* an instance of competitor_rankings carries no rank_id and is always inserted
merge(rows, table, record) ==
    IF table = "competitor_rankings" THEN Append(rows, record)
    ELSE {r \in rows : r[PrimaryKey[table]] # record[PrimaryKey[table]]} \cup {record}

\* a fault of the database server while the batch is written: none, or of a kind at a record
\* (position Len+1 is the commit)
NoFault == [at |-> 0, kind |-> "none"]

Faults(n) == {NoFault} \cup {[at |-> i, kind |-> k] : i \in 1..(n + 1), k \in {"SQLAlchemyError", "Exception"}}

RECURSIVE MergeAll(_, _, _, _, _, _)
\* the loop over data_to_insert and the commit: the rows written so far and the error raised
MergeAll(store, table, rows, records, fault, i) ==
    IF fault.at = i THEN [error |-> fault.kind, rows |-> rows]
    ELSE IF records = <<>> THEN [error |-> "none", rows |-> rows]
    ELSE IF ~Accepts(store, table, Head(records)) THEN [error |-> "IntegrityError", rows |-> rows]
    ELSE MergeAll(store, table, merge(rows, table, Head(records)), Tail(records), fault, i + 1)

\* an error handler that leaves the written rows in place
rollback_missing(before, written) == written

\* session.rollback(): the table as it was before the call
rollback(before, written) == before

\* the exception that leaves _insert_dataframe: every error is caught by an except clause
Escapes(error) == "none"

\* the call's effect: what happened, the table afterwards, the increment of load_stats
_insert_dataframe(store, df, table, fault) ==
    IF IsEmpty(df)
    THEN [outcome |-> "empty", error |-> "none", rows |-> store[table], added |-> 0, dirty |-> FALSE]
    ELSE LET m == MergeAll(store, table, store[table], df.rows, fault, 1)
         IN  IF m.error = "none"
             THEN [outcome |-> "committed", error |-> "none", rows |-> m.rows, added |-> LenDF(df),
                   dirty |-> FALSE]
             ELSE [outcome |-> "failed", error |-> m.error, rows |-> rollback(store[table], m.rows),
                   added |-> 0, dirty |-> m.rows # store[table]]

(***************************************************************************)
(* The feeds the loader sees: each response of a load is absent, lacks its *)
(* top-level key, or carries some part of the provider's feed.             *)
(***************************************************************************)
MaxLoads == 1

RECURSIVE SubLists(_)
\* the sub-lists of a list, order kept
SubLists(l) ==
    IF l = <<>> THEN {<<>>}
    ELSE SubLists(Tail(l)) \cup {<<Head(l)>> \o t : t \in SubLists(Tail(l))}

\* the prefixes of a list
Prefixes(l) == {SubSeq(l, 1, n) : n \in 0..Len(l)}

Feed(lists) == {Absent, NoKey} \cup {Body(l) : l \in lists}

\* any part of: c1 complete, c2 whose category has no name, c3 without gender
CompetitionsFeed ==
    Feed(SubLists(<<FullCompetition("c1", FullCategory("k1")),
                    FullCompetition("c2", Without(FullCategory("k2"), "name")),
                    Without(FullCompetition("c3", FullCategory("k1")), "gender")>>))

\* any part of: x1 with venue v1, x2 without name
ComplexesFeed ==
    Feed(SubLists(<<FullComplex("x1", <<FullVenue("v1")>>),
                    Without(FullComplex("x2", <<>>), "name")>>))

\* the ranking list cut after some rank: A (under either name), B, and C whose competitor
\* record is incomplete
RankingsFeed ==
    UNION {{Absent, NoKey} \cup {Body(<<Group(l)>>) :
                l \in Prefixes(<<FullRanking(FullCompetitor("A", n)),
                                 FullRanking(FullCompetitor("B", "n1")),
                                 FullRanking(Without(FullCompetitor("C", "n1"), "name"))>>)} :
           n \in CompetitorNames}

VARIABLES extOp, extData, extResult

VARIABLES
    pc,            \* the statement of load_all_data about to run, or ready / done / aborted
    loads,         \* full loads started so far
    db,            \* the relational store
    load_stats,    \* DataLoader.load_stats
    frames,        \* the DataFrames load_all_data holds
    attempted,     \* tables whose merge was called in the current load, in call order
    outcome,       \* what each merge call of the current load did
    last,          \* the latest merge call
    feed,          \* the kind of response the latest extraction of the current load received
    skipped_log,   \* the "ranking entries were skipped" warning of the current load
    raised         \* the exception that left load_all_data, and the statement it left from

extVars == <<extOp, extData, extResult>>

loaderVars ==
    <<pc, loads, db, load_stats, frames, attempted, outcome, last, feed, skipped_log, raised>>

VARIABLES
    db_type,        \* DatabaseConfig.DB_TYPE of the process under study
    startup,        \* how the construction of a DataLoader ended, or "none"
    server_log,     \* what the processes asked of the database server: [who, stmt]
    resource_cache, \* st.cache_resource of the dashboard process: function key -> engine
    data_cache,     \* st.cache_data of the dashboard process: function -> returned frame
    acquired,       \* connection acquisitions of the dashboard process that succeeded
    queried,        \* per dataset function, the times its query was sent to the store
    page,           \* the page whose script ran last, or "none"
    shown,          \* how that run ended, the datasets it rendered from, the loads before it
    runs            \* script runs of the dashboard process so far

pageVars ==
    <<db_type, startup, server_log, resource_cache, data_cache, acquired, queried, page, shown, runs>>

VARIABLES
    run_pc,         \* per concurrent loader run: the statement about to run and the phase within it
    run_frames,     \* per run: the DataFrames its load_all_data holds
    run_session,    \* per run: the session of the merge call in progress
    sessions,       \* per run: sessions opened and sessions closed so far
    run_stats,      \* per run: the load_stats of its DataLoader
    commits         \* per table: the runs whose commit of the table succeeded, in commit order

runVars == <<run_pc, run_frames, run_session, sessions, run_stats, commits>>

vars == <<extVars, loaderVars, pageVars, runVars>>

NoException == [error |-> "none", at |-> "none"]

NoFramesHeld ==
    [categories |-> EmptyDataFrame, competitions |-> EmptyDataFrame, complexes |-> EmptyDataFrame,
     venues |-> EmptyDataFrame, competitors |-> EmptyDataFrame, rankings |-> EmptyDataFrame,
     competitor_rankings |-> EmptyDataFrame]

NoOutcome == [t \in Tables |-> "none"]

NoFeed == [domain |-> "none", kind |-> "none"]

NoCall == [table |-> "none", outcome |-> "none", error |-> "none", updated |-> 0, dirty |-> FALSE]

\* defaultdict(int)
NoStats == [t \in Tables |-> 0]

ExtInit ==
    /\ extOp = "none"
    /\ extData = Absent
    /\ extResult = NoFrames

\* the complete feed: every entry valid
SeedCompetitions == Body(<<FullCompetition("c1", FullCategory("k1"))>>)

SeedComplexes == Body(<<FullComplex("x1", <<FullVenue("v1")>>)>>)

SeedRankings ==
    Body(<<Group(<<FullRanking(FullCompetitor("A", "n1")), FullRanking(FullCompetitor("B", "n1"))>>)>>)

\* the table after a fault-free merge of the frame
Loaded(store, df, table) == [store EXCEPT ![table] = _insert_dataframe(store, df, table, NoFault).rows]

\* the store an earlier fault-free load of the complete feed leaves behind
SeededStore ==
    LET s1 == Loaded(EmptyStore, get_competitions_data(SeedCompetitions).first, "categories")
        s2 == Loaded(s1, get_competitions_data(SeedCompetitions).second, "competitions")
        s3 == Loaded(s2, get_complexes_data(SeedComplexes).first, "complexes")
        s4 == Loaded(s3, get_complexes_data(SeedComplexes).second, "venues")
        s5 == Loaded(s4, get_doubles_competitor_rankings_data(SeedRankings).first, "competitors")
    IN  Loaded(s5, get_doubles_competitor_rankings_data(SeedRankings).second, "competitor_rankings")

\* DataLoader.__init__: the database is new, or holds what an earlier load process left
LoaderInit ==
    /\ pc = "ready"
    /\ loads = 0
    /\ db \in {EmptyStore, SeededStore}
    /\ load_stats = NoStats
    /\ frames = NoFramesHeld
    /\ attempted = <<>>
    /\ outcome = NoOutcome
    /\ last = NoCall
    /\ feed = NoFeed
    /\ skipped_log = <<>>
    /\ raised = NoException

\* the dataset functions of the four pages (st.cache_data)
HomeDatasets ==
    <<"load_competitions_dataset", "load_competitor_rankings_dataset", "load_venues_dataset">>

Datasets ==
    [Home |-> HomeDatasets, Competitions |-> <<"load_competitions">>,
     Venues |-> <<"load_complexes_and_venues">>, Rankings |-> <<"load_rankings_dataset">>]

Pages == DOMAIN Datasets

DatasetFunctions == UNION {Range(Datasets[p]) : p \in Pages}

\* the cache key of a page's get_db_connection: module, qualified name and source text; the
\* three pages under pages/ define it with the same text, Home.py with another
ConnectionKey(p) == IF p = "Home" THEN "Home.get_db_connection" ELSE "pages.get_db_connection"

ConnectionKeys == {ConnectionKey(p) : p \in Pages}

NotCached == [cached |-> FALSE]

NothingShown == [outcome |-> "none", data |-> <<>>, after_loads |-> 0]

\* no dashboard process and no loader construction under study; DB_TYPE defaults to mysql
PageInit ==
    /\ db_type = "mysql"
    /\ startup = "none"
    /\ server_log = {}
    /\ resource_cache = [k \in ConnectionKeys |-> "none"]
    /\ data_cache = [f \in DatasetFunctions |-> NotCached]
    /\ acquired = 0
    /\ queried = [f \in DatasetFunctions |-> 0]
    /\ page = "none"
    /\ shown = NothingShown
    /\ runs = 0

\* two loader processes started against the same store
Runs == {"A", "B"}

NoSession == [loaded |-> {}, error |-> "none"]

RunInit ==
    /\ run_pc = [r \in Runs |-> [step |-> "ready", phase |-> "call"]]
    /\ run_frames = [r \in Runs |-> NoFramesHeld]
    /\ run_session = [r \in Runs |-> NoSession]
    /\ sessions = [r \in Runs |-> [opened |-> 0, closed |-> 0]]
    /\ run_stats = [r \in Runs |-> NoStats]
    /\ commits = [t \in Tables |-> <<>>]

Init == ExtInit /\ LoaderInit /\ PageInit /\ RunInit

\* load_all_data with the two merges of the complexes domain exchanged
StepAfter_venues_first(step) ==
    CASE step = "extract_competitions" -> "categories"
      [] step = "categories" -> "competitions"
      [] step = "competitions" -> "extract_complexes"
      [] step = "extract_complexes" -> "venues"
      [] step = "venues" -> "complexes"
      [] step = "complexes" -> "extract_rankings"
      [] step = "extract_rankings" -> "competitors"
      [] step = "competitors" -> "filter_rankings"
      [] step = "filter_rankings" -> "competitor_rankings"
      [] step = "competitor_rankings" -> "summary"
      [] step = "summary" -> "done"

\* the statement that follows each statement of load_all_data
StepAfter(step) ==
    CASE step = "extract_competitions" -> "categories"
      [] step = "categories" -> "competitions"
      [] step = "competitions" -> "extract_complexes"
      [] step = "extract_complexes" -> "complexes"
      [] step = "complexes" -> "venues"
      [] step = "venues" -> "extract_rankings"
      [] step = "extract_rankings" -> "competitors"
      [] step = "competitors" -> "filter_rankings"
      [] step = "filter_rankings" -> "competitor_rankings"
      [] step = "competitor_rankings" -> "summary"
      [] step = "summary" -> "done"

\* an exception leaves load_all_data from the statement `step`
Abort(error, step) ==
    /\ pc' = "aborted"
    /\ raised' = [error |-> error, at |-> step]

Continue(step) ==
    /\ pc' = StepAfter(step)
    /\ raised' = raised

(***************************************************************************)
(* DataLoader.load_all_data, one action per statement                      *)
(***************************************************************************)
\* a call of load_all_data on the loader instance
load_all_data ==
    /\ pc \in {"ready", "done"}
    /\ loads < MaxLoads
    /\ pc' = "extract_competitions"
    /\ loads' = loads + 1
    /\ frames' = NoFramesHeld
    /\ attempted' = <<>>
    /\ outcome' = NoOutcome
    /\ last' = NoCall
    /\ feed' = NoFeed
    /\ skipped_log' = <<>>
    /\ raised' = NoException
    /\ UNCHANGED <<db, load_stats, extVars, pageVars, runVars>>

\* the load process ended (normally or by an exception) and a new one constructs its loader
DataLoader ==
    /\ pc \in {"done", "aborted"}
    /\ pc' = "ready"
    /\ load_stats' = NoStats
    /\ frames' = NoFramesHeld
    /\ attempted' = <<>>
    /\ outcome' = NoOutcome
    /\ last' = NoCall
    /\ feed' = NoFeed
    /\ skipped_log' = <<>>
    /\ raised' = NoException
    /\ UNCHANGED <<loads, db, extVars, pageVars, runVars>>

\* a two-frame extraction statement: its frames are bound, or its exception leaves the load
Extract(step, domain, data, result, firstName, secondName) ==
    /\ pc = step
    /\ feed' = [domain |-> domain, kind |-> data.kind]
    /\ IF result.raised # "none"
       THEN Abort(result.raised, step) /\ frames' = frames
       ELSE /\ Continue(step)
            /\ frames' = [frames EXCEPT ![firstName] = result.first, ![secondName] = result.second]
    /\ UNCHANGED <<loads, db, load_stats, attempted, outcome, last, skipped_log, extVars, pageVars, runVars>>

\* the response is drawn when the statement runs: the guard stands before the choice
ExtractCompetitionsStep ==
    /\ pc = "extract_competitions"
    /\ \E data \in CompetitionsFeed :
        Extract("extract_competitions", "competitions", data, get_competitions_data(data),
                "categories", "competitions")

ExtractComplexesStep ==
    /\ pc = "extract_complexes"
    /\ \E data \in ComplexesFeed :
        Extract("extract_complexes", "complexes", data, get_complexes_data(data),
                "complexes", "venues")

ExtractRankingsStep ==
    /\ pc = "extract_rankings"
    /\ \E data \in RankingsFeed :
        Extract("extract_rankings", "rankings", data, get_doubles_competitor_rankings_data(data),
                "competitors", "rankings")

\* records of the batch whose primary key the table already holds
Updated(store, table, df) ==
    IF table \notin NaturalKeyed THEN 0
    ELSE Cardinality({i \in 1..LenDF(df) : df.rows[i][PrimaryKey[table]] \in Keys(store, table)})

\* frames no later statement reads are dropped; competitors_df is read by the rankings filter
Release(held, table) ==
    IF table = "competitors" THEN held ELSE [held EXCEPT ![table] = EmptyDataFrame]

\* self.__insert_dataframe(frame, model_class)
InsertStep(table) ==
    /\ pc = table
    /\ \E fault \in Faults(LenDF(frames[table])) :
        LET r == _insert_dataframe(db, frames[table], table, fault)
        IN  /\ db' = [db EXCEPT ![table] = r.rows]
            /\ load_stats' = [load_stats EXCEPT ![table] = @ + r.added]
            /\ outcome' = [outcome EXCEPT ![table] = r.outcome]
            /\ last' = [table |-> table, outcome |-> r.outcome, error |-> r.error,
                        updated |-> IF r.outcome = "committed"
                                    THEN Updated(db, table, frames[table]) ELSE 0,
                        dirty |-> r.dirty]
            /\ IF Escapes(r.error) # "none" THEN Abort(r.error, table) ELSE Continue(table)
    /\ attempted' = Append(attempted, table)
    /\ frames' = Release(frames, table)
    /\ UNCHANGED <<loads, feed, skipped_log, extVars, pageVars, runVars>>

InsertCategories == InsertStep("categories")

InsertCompetitions == InsertStep("competitions")

InsertComplexes == InsertStep("complexes")

InsertVenues == InsertStep("venues")

InsertCompetitors == InsertStep("competitors")

InsertRankings == InsertStep("competitor_rankings")

\* a filter that keeps every ranking
isin_filter_keep_all(rankings_df, ids) == rankings_df

\* rankings_df[rankings_df['competitor_id'].isin(inserted_competitor_ids)]
isin_filter(rankings_df, ids) ==
    [cols |-> rankings_df.cols,
     rows |-> SelectRows(rankings_df.rows, {r \in Range(rankings_df.rows) : r.competitor_id \in ids})]

\* the referential filter: a frame without columns has no 'competitor_id' to select
filter_rankings(competitors_df, rankings_df) ==
    IF ~competitors_df.cols \/ ~rankings_df.cols
    THEN [raised |-> "KeyError", df |-> EmptyDataFrame, skipped |-> 0]
    ELSE LET inserted_competitor_ids == {r.competitor_id : r \in Range(competitors_df.rows)}
             filtered_rankings_df == isin_filter(rankings_df, inserted_competitor_ids)
         IN  [raised |-> "none", df |-> filtered_rankings_df,
              skipped |-> LenDF(rankings_df) - LenDF(filtered_rankings_df)]

FilterRankings ==
    /\ pc = "filter_rankings"
    /\ LET f == filter_rankings(frames.competitors, frames.rankings)
       IN  IF f.raised # "none"
           THEN Abort(f.raised, "filter_rankings") /\ UNCHANGED <<frames, skipped_log>>
           ELSE /\ Continue("filter_rankings")
                /\ frames' = [frames EXCEPT !.competitor_rankings = f.df]
                /\ skipped_log' = IF f.skipped # 0 THEN <<f.skipped>> ELSE <<>>
    /\ UNCHANGED <<loads, db, load_stats, attempted, outcome, last, feed, extVars, pageVars, runVars>>

\* the elapsed time and the load summary are printed; the call returns
Summary ==
    /\ pc = "summary"
    /\ Continue("summary")
    /\ frames' = NoFramesHeld
    /\ UNCHANGED <<loads, db, load_stats, attempted, outcome, last, feed, skipped_log, extVars, pageVars, runVars>>

Next ==
    \/ load_all_data
    \/ DataLoader
    \/ ExtractCompetitionsStep
    \/ InsertCategories
    \/ InsertCompetitions
    \/ ExtractComplexesStep
    \/ InsertComplexes
    \/ InsertVenues
    \/ ExtractRankingsStep
    \/ InsertCompetitors
    \/ FilterRankings
    \/ InsertRankings
    \/ Summary

Spec == Init /\ [][Next]_vars

(***************************************************************************)
(* The extraction operations on their own, each applied once to a bounded  *)
(* upstream response.                                                      *)
(***************************************************************************)
Extraction(op, data, result) ==
    /\ extOp = "none"
    /\ extOp' = op
    /\ extData' = data
    /\ extResult' = result
    /\ UNCHANGED <<loaderVars, pageVars, runVars>>

ExtractCompetitions ==
    /\ extOp = "none"
    /\ \E data \in CompetitionsResponses :
        Extraction("competitions", data, get_competitions_data(data))

ExtractComplexes ==
    /\ extOp = "none"
    /\ \E data \in ComplexesResponses :
        Extraction("complexes", data, get_complexes_data(data))

ExtractRankings ==
    /\ extOp = "none"
    /\ \E data \in RankingsResponses :
        Extraction("rankings", data, get_doubles_competitor_rankings_data(data))

ExtNext == ExtractCompetitions \/ ExtractComplexes \/ ExtractRankings

SpecExtract == Init /\ [][ExtNext]_vars

(***************************************************************************)
(* Properties of the full load (specification Spec)                        *)
(***************************************************************************)
\* the competitor ids of a frame's rows
CompetitorIdsOf(df) == {r.competitor_id : r \in Range(df.rows)}

\* whether the server accepts every record of the frame as the store stands
ValidBatch(store, table, df) == \A r \in Range(df.rows) : Accepts(store, table, r)

\* whether the table holds the record (for competitor_rankings: as one of its rows)
Holds(store, table, record) ==
    IF table = "competitor_rankings" THEN record \in Range(store[table])
    ELSE \E r \in store[table] : r[PrimaryKey[table]] = record[PrimaryKey[table]]

InjectedErrors == {"SQLAlchemyError", "Exception"}

\* C1: a persistence failure while merging a table never prevents the later merge steps:
\* once a load has ended, a failed merge of a table was followed by a merge call for every
\* table after it.
C1_LaterTablesAttempted ==
    (pc \in {"done", "aborted"} /\ \E t \in Tables : outcome[t] = "failed")
        => attempted = TableOrder

\* the part of C1 that _insert_dataframe itself guarantees: the failed call hands control to
\* the next statement with no exception, and a later non-empty batch the server accepts is
\* committed although an earlier merge failed
FailedMergeIsContained ==
    [][/\ (pc \in Tables /\ last'.outcome = "failed")
            => (pc' = StepAfter(pc) /\ raised' = NoException)
       /\ (/\ pc \in Tables
           /\ \E t \in Tables : outcome[t] = "failed"
           /\ ~IsEmpty(frames[pc])
           /\ ValidBatch(db, pc, frames[pc])
           /\ last'.error \notin InjectedErrors)
            => (/\ outcome'[pc] = "committed"
                /\ \A r \in Range(frames[pc].rows) : Holds(db', pc, r))]_vars

\* a load in which the complexes merge failed and venues, competitors and rankings were
\* committed
FailedMergeThenCommits ==
    /\ pc = "done"
    /\ outcome["complexes"] = "failed"
    /\ outcome["venues"] = "committed"
    /\ outcome["competitors"] = "committed"
    /\ outcome["competitor_rankings"] = "committed"

\* C2: an absent result of any of the three extraction calls is treated as zero records and
\* no exception leaves the full load.
C2_AbsentIsZeroRecords == feed.kind = "absent" => pc # "aborted"

\* C3: every ranking record submitted for merge has a competitor id of the run's competitors
\* record set, and the logged skipped count is the number of extracted ranking records whose
\* competitor id is outside that set.
C3_ReferentialFilter ==
    pc = "competitor_rankings" =>
        LET ids == CompetitorIdsOf(frames.competitors)
            outside == {i \in 1..LenDF(frames.rankings) : frames.rankings.rows[i].competitor_id \notin ids}
        IN  /\ CompetitorIdsOf(frames.competitor_rankings) \subseteq ids
            /\ skipped_log = IF outside = {} THEN <<>> ELSE <<Cardinality(outside)>>

\* C3 witness: competitors {A, B}, rankings for A, B and C: rankings for A and B are persisted
\* and one skipped entry is logged
C3_Witness ==
    /\ pc = "summary"
    /\ CompetitorIdsOf(frames.competitors) = {"A", "B"}
    /\ [i \in 1..LenDF(frames.rankings) |-> frames.rankings.rows[i].competitor_id] = <<"A", "B", "C">>
    /\ skipped_log = <<1>>
    /\ last.outcome = "committed"
    /\ LET n == Len(db.competitor_rankings)
       IN  /\ n >= 2
           /\ db.competitor_rankings[n - 1].competitor_id = "A"
           /\ db.competitor_rankings[n].competitor_id = "B"

\* the last record of the batch with the primary-key value k
LastWithKey(rows, key, k) ==
    rows[CHOOSE i \in 1..Len(rows) :
            /\ rows[i][key] = k
            /\ \A j \in (i + 1)..Len(rows) : rows[j][key] # k]

\* C4: merging is an upsert by primary key: after a committed merge into a natural-keyed
\* table, each primary key of the batch has exactly one row and that row carries the values
\* of the most recent record merged for it.
C4_UpsertByPrimaryKey ==
    [][(pc \in NaturalKeyed /\ last'.outcome = "committed") =>
        \A i \in 1..LenDF(frames[pc]) :
            LET k == frames[pc].rows[i][PrimaryKey[pc]]
            IN  {r \in db'[pc] : r[PrimaryKey[pc]] = k}
                    = {LastWithKey(frames[pc].rows, PrimaryKey[pc], k)}]_vars

\* C4 witness: competitor A, stored as n1, was merged again as n2: one row, named n2
C4_Witness ==
    /\ last.table = "competitors"
    /\ last.outcome = "committed"
    /\ last.updated >= 1
    /\ {r.name : r \in {x \in db.competitors : x.competitor_id = "A"}} = {"n2"}
    /\ \E r \in SeededStore.competitors : r.competitor_id = "A" /\ r.name = "n1"

\* C5: a merge call is all-or-nothing: when a record of the batch fails, the store and
\* load_stats are as before the call and the call returns normally.
C5_AllOrNothing ==
    [][(pc \in Tables /\ last'.outcome = "failed") =>
        /\ db' = db
        /\ load_stats' = load_stats
        /\ pc' = StepAfter(pc)
        /\ raised' = NoException]_vars

\* C5 witness: a merge failed after it had already written rows of the batch
C5_Witness == last.outcome = "failed" /\ last.dirty

\* C6: the merge steps of a load run in the order categories, competitions, complexes,
\* venues, competitors, competitor_rankings: the calls made so far are a prefix of that order.
C6_MergeOrder ==
    /\ Len(attempted) <= Len(TableOrder)
    /\ attempted = SubSeq(TableOrder, 1, Len(attempted))
    /\ pc \in Tables => Append(attempted, pc) = SubSeq(TableOrder, 1, Len(attempted) + 1)

\* C6 witness: a load that called all six merges
C6_Witness == pc = "done" /\ attempted = TableOrder

(***************************************************************************)
(* Properties of the extraction operations (specification SpecExtract)     *)
(***************************************************************************)
\* no two rows of the frame share a value of the key column
UniqueKey(df, key) ==
    \A i, j \in 1..LenDF(df) : df.rows[i][key] = df.rows[j][key] => i = j

\* C7: the record sets for categories, competitions, complexes, venues and competitors hold
\* at most one row per primary-key value.
C7_UniquePrimaryKeys ==
    /\ extOp = "competitions" =>
        UniqueKey(extResult.first, "category_id") /\ UniqueKey(extResult.second, "competition_id")
    /\ extOp = "complexes" =>
        UniqueKey(extResult.first, "complex_id") /\ UniqueKey(extResult.second, "venue_id")
    /\ extOp = "rankings" => UniqueKey(extResult.first, "competitor_id")

\* every row of the frame has a value in every NOT NULL column of the table
RequiredPresent(df, table) ==
    \A r \in Range(df.rows) : \A c \in NotNull[table] : r[c] # None

\* C8: every record the extractor returns has a value for every column the schema declares
\* required for its table; no complex record lacks complex_name.
C8_RequiredColumnsPresent ==
    /\ extOp = "competitions" =>
        RequiredPresent(extResult.first, "categories")
        /\ RequiredPresent(extResult.second, "competitions")
    /\ extOp = "complexes" =>
        RequiredPresent(extResult.first, "complexes") /\ RequiredPresent(extResult.second, "venues")
    /\ extOp = "rankings" =>
        RequiredPresent(extResult.first, "competitors")
        /\ RequiredPresent(extResult.second, "competitor_rankings")

\* C9: for every response that carries the expected top-level key, the extraction returns its
\* two record sets without raising, the empty list included.
C9_NeverRaises == extData.kind = "body" => extResult.raised = "none"

\* the complex entries of a response that have an id, and their venues with every field
ValidComplexes(list) == {i \in 1..Len(list) : Truthy(Get(list[i], "id"))}

ValidVenues(complex_data) ==
    {v \in Range(venues_of(complex_data)) : \A k \in VenueChecked : Truthy(Get(v, k))}

\* C10: no competition record lacks competition_id, competition_name, type or gender and no
\* venue record lacks a required field, while the other valid entries of the response
\* (the venue's complex included) are still returned.
C10_RequiredFieldFiltering ==
    /\ (extOp = "competitions" /\ extData.kind = "body") =>
        /\ RequiredPresent(extResult.second, "competitions")
        /\ \A i \in 1..Len(extData.list) :
            (\A c \in CompetitionRequired : competition_record(extData.list[i])[c] # None)
                => competition_record(extData.list[i]) \in Range(extResult.second.rows)
    /\ (extOp = "complexes" /\ extData.kind = "body") =>
        /\ \A r \in Range(extResult.second.rows) : \A c \in VenueRequired : r[c] # None
        /\ \A i \in ValidComplexes(extData.list) :
            /\ \E r \in Range(extResult.first.rows) : r.complex_id = extData.list[i]["id"]
            /\ \A v \in ValidVenues(extData.list[i]) :
                \E r \in Range(extResult.second.rows) : r.venue_id = v["id"]

(***************************************************************************)
(* One loader instance whose load_all_data is called again and again       *)
(* (specification SpecStats)                                               *)
(***************************************************************************)
MaxRepeats == 1

\* a further call that starts from fresh counters
load_all_data_again_resets ==
    /\ pc = "done"
    /\ loads >= 1
    /\ loads < 1 + MaxRepeats
    /\ pc' = "extract_competitions"
    /\ loads' = loads + 1
    /\ load_stats' = NoStats
    /\ frames' = NoFramesHeld
    /\ attempted' = <<>>
    /\ outcome' = NoOutcome
    /\ last' = NoCall
    /\ feed' = NoFeed
    /\ skipped_log' = <<>>
    /\ raised' = NoException
    /\ UNCHANGED <<db, extVars, pageVars, runVars>>

\* a further call of load_all_data on the same loader instance
load_all_data_again ==
    /\ pc = "done"
    /\ loads >= 1
    /\ loads < 1 + MaxRepeats
    /\ pc' = "extract_competitions"
    /\ loads' = loads + 1
    /\ frames' = NoFramesHeld
    /\ attempted' = <<>>
    /\ outcome' = NoOutcome
    /\ last' = NoCall
    /\ feed' = NoFeed
    /\ skipped_log' = <<>>
    /\ raised' = NoException
    /\ UNCHANGED <<db, load_stats, extVars, pageVars, runVars>>

\* the responses of a repeated load: the request failed, or the complete feed arrived
RepeatCompetitionsStep ==
    /\ pc = "extract_competitions"
    /\ \E data \in {Absent, SeedCompetitions} :
        Extract("extract_competitions", "competitions", data, get_competitions_data(data),
                "categories", "competitions")

RepeatComplexesStep ==
    /\ pc = "extract_complexes"
    /\ \E data \in {Absent, SeedComplexes} :
        Extract("extract_complexes", "complexes", data, get_complexes_data(data),
                "complexes", "venues")

RepeatRankingsStep ==
    /\ pc = "extract_rankings"
    /\ \E data \in {Absent, SeedRankings} :
        Extract("extract_rankings", "rankings", data, get_doubles_competitor_rankings_data(data),
                "competitors", "rankings")

StatsNext ==
    \/ load_all_data
    \/ load_all_data_again
    \/ RepeatCompetitionsStep
    \/ InsertCategories
    \/ InsertCompetitions
    \/ RepeatComplexesStep
    \/ InsertComplexes
    \/ InsertVenues
    \/ RepeatRankingsStep
    \/ InsertCompetitors
    \/ FilterRankings
    \/ InsertRankings
    \/ Summary

SpecStats == Init /\ [][StatsNext]_vars

\* C11: on one loader instance the statistic of a table grows by the size of each batch that
\* commits (records submitted, whether or not a row changed) and by nothing else: an empty or
\* failed batch and the start of a further full load leave it as it was.
C11_StatsAccumulate ==
    [][\A t \in Tables :
        load_stats'[t] = load_stats[t]
            + (IF pc = t /\ last'.outcome = "committed" THEN LenDF(frames[t]) ELSE 0)]_vars

\* C11 witness: the second full load of the instance committed the two competitors the first
\* load had already stored; no row was added and the statistic counts four records
C11_Witness ==
    /\ loads = 2
    /\ pc = "done"
    /\ load_stats["competitors"] = 4
    /\ Cardinality(db.competitors) = 2
    /\ outcome["categories"] \in {"failed", "empty"}

(***************************************************************************)
(* SportsRadarAPI._make_request (specification SpecRequest)                *)
(***************************************************************************)
\* the classes of requests.exceptions an exception is an instance of
Bases(exc) ==
    CASE exc = "HTTPError" -> {"HTTPError", "RequestException"}
      [] exc = "ConnectionError" -> {"ConnectionError", "RequestException"}
      [] exc = "SSLError" -> {"SSLError", "ConnectionError", "RequestException"}
      [] exc = "ConnectTimeout" -> {"ConnectTimeout", "ConnectionError", "Timeout", "RequestException"}
      [] exc = "ReadTimeout" -> {"ReadTimeout", "Timeout", "RequestException"}
      [] exc = "TooManyRedirects" -> {"TooManyRedirects", "RequestException"}
      [] exc = "InvalidURL" -> {"InvalidURL", "RequestException"}
      [] exc = "ChunkedEncodingError" -> {"ChunkedEncodingError", "RequestException"}
      [] exc = "JSONDecodeError" -> {"JSONDecodeError", "InvalidJSONError", "RequestException"}
      [] OTHER -> {exc}

\* what requests.get can raise
GetExceptions ==
    {"ConnectionError", "SSLError", "ConnectTimeout", "ReadTimeout", "TooManyRedirects", "InvalidURL",
     "ChunkedEncodingError"}

\* the except clauses without the final `except RequestException`
Handlers_named_only == <<"HTTPError", "ConnectionError", "Timeout">>

\* the except clauses of _make_request, in order
Handlers == <<"HTTPError", "ConnectionError", "Timeout", "RequestException">>

\* an exception raised in the try block: a matching clause logs it and control reaches
\* `return None`; without one the exception leaves the call
Handle(exc) ==
    IF \E i \in 1..Len(Handlers) : Handlers[i] \in Bases(exc)
    THEN [returned |-> Absent, raised |-> "none"]
    ELSE [returned |-> Absent, raised |-> exc]

\* a response body that is no JSON document
InvalidJson == [kind |-> "invalid"]

\* response.raise_for_status(): client and server error statuses
IsErrorStatus(status) == status >= 400 /\ status < 600

\* the call, given what the transport does: requests.get raises or returns a response with a
\* status and a body
_make_request(t) ==
    IF t.get # "response" THEN Handle(t.get)
    ELSE IF IsErrorStatus(t.status) THEN Handle("HTTPError")
    ELSE IF t.body.kind = "invalid" THEN Handle("JSONDecodeError")
    ELSE [returned |-> t.body, raised |-> "none"]

Statuses == {200, 401, 403, 404, 429, 500, 503}

\* the JSON documents the three endpoints can answer with
JsonBodies ==
    {b \in CompetitionsResponses \cup ComplexesResponses \cup RankingsResponses : b.kind # "absent"}

Transports ==
    {[get |-> e] : e \in GetExceptions}
    \cup {[get |-> "response", status |-> st, body |-> b] : st \in Statuses, b \in {InvalidJson, NoKey}}
    \cup {[get |-> "response", status |-> 200, body |-> b] : b \in JsonBodies}

MakeRequest ==
    /\ extOp = "none"
    /\ \E t \in Transports : Extraction("request", t, _make_request(t))

RequestNext == MakeRequest

SpecRequest == Init /\ [][RequestNext]_vars

\* whether the transport delivered a successful response with a JSON body
Successful(t) == t.get = "response" /\ ~IsErrorStatus(t.status) /\ t.body.kind # "invalid"

\* C12: no exception leaves _make_request; an HTTP error status, a connection failure, a
\* timeout or any other request failure gives the absent result, and the parsed body is
\* returned only for a successful response.
C12_RequestNeverRaises ==
    extOp = "request" =>
        /\ extResult.raised = "none"
        /\ Successful(extData) => extResult.returned = extData.body
        /\ ~Successful(extData) => extResult.returned = Absent

\* C12 witness: a failure that none of the three named clauses matches (too many redirects)
\* ended in the absent result
C12_Witness ==
    /\ extOp = "request"
    /\ extData.get = "TooManyRedirects"
    /\ extResult = [returned |-> Absent, raised |-> "none"]

(***************************************************************************)
(* DatabaseConfig                                                          *)
(***************************************************************************)
\* str.lower() on the values DB_TYPE is given in the environment
Lower(text) ==
    CASE text = "MySQL" -> "mysql"
      [] text = "PostgreSQL" -> "postgresql"
      [] text = "Oracle" -> "oracle"
      [] OTHER -> text

Unset == "<unset>"

EnvDbTypes == {Unset, "mysql", "MySQL", "postgresql", "PostgreSQL", "oracle", "Oracle", "sqlite"}

\* DB_TYPE = os.getenv("DB_TYPE", "mysql").lower()
DB_TYPE(env) == Lower(IF env = Unset THEN "mysql" ELSE env)

\* a driver lookup that falls back to MySQL for an unknown type
_get_driver_fallback(type) ==
    IF type = "postgresql" THEN [raised |-> "none", driver |-> "postgresql+psycopg2"]
    ELSE [raised |-> "none", driver |-> "mysql+pymysql"]

\* DatabaseConfig._get_driver
_get_driver(type) ==
    IF type = "postgresql" THEN [raised |-> "none", driver |-> "postgresql+psycopg2"]
    ELSE IF type = "mysql" THEN [raised |-> "none", driver |-> "mysql+pymysql"]
    ELSE [raised |-> "ValueError", driver |-> None]

\* DatabaseConfig.get_connection_string: the URI is built on the driver
get_connection_string(type) == _get_driver(type)

\* a request a process sends to the database server
Sent(who, stmt) == [who |-> who, stmt |-> stmt]

CreateDatabase == "CREATE DATABASE IF NOT EXISTS"

\* DatabaseConfig.ensure_database_exists: MySQL only; the admin engine connects and creates
\* the database, an error of the connection leaves the call
ensure_database_exists(type, who, up) ==
    IF type # "mysql" THEN [raised |-> "none", log |-> {}]
    ELSE IF ~up THEN [raised |-> "OperationalError", log |-> {Sent(who, "connect")}]
    ELSE [raised |-> "none", log |-> {Sent(who, "connect"), Sent(who, CreateDatabase)}]

\* DataLoader.__init__ up to create_db_tables
DataLoader_init(type, up) ==
    LET e == ensure_database_exists(type, "loader", up)
        c == get_connection_string(type)
    IN  IF e.raised # "none" THEN [outcome |-> e.raised, log |-> e.log]
        ELSE IF c.raised # "none" THEN [outcome |-> c.raised, log |-> e.log]
        ELSE IF ~up THEN [outcome |-> "OperationalError", log |-> e.log \cup {Sent("loader", "connect")}]
        ELSE [outcome |-> "ok",
              log |-> e.log \cup {Sent("loader", "connect"), Sent("loader", "CREATE TABLE")}]

(***************************************************************************)
(* The dashboard: get_db_connection, run_sql_query, the dataset functions  *)
(***************************************************************************)
\* the body of get_db_connection: the connection string is built outside the try block; any
\* exception inside it is reported and the script stops
get_db_connection(type, up) ==
    LET c == get_connection_string(type)
        e == ensure_database_exists(type, "dashboard", up)
    IN  IF c.raised # "none" THEN [outcome |-> c.raised, log |-> {}]
        ELSE IF e.raised # "none" THEN [outcome |-> "stopped", log |-> e.log]
        ELSE IF ~up THEN [outcome |-> "stopped", log |-> e.log \cup {Sent("dashboard", "connect")}]
        ELSE [outcome |-> "engine",
              log |-> e.log \cup {Sent("dashboard", "connect"), Sent("dashboard", "SELECT 1")}]

\* @st.cache_resource: the body runs unless the function key has an entry; only a returned
\* engine is stored
CachedConnection(cache, p, type, up) ==
    IF cache[ConnectionKey(p)] # "none"
    THEN [outcome |-> "engine", log |-> {}, fresh |-> FALSE]
    ELSE LET r == get_db_connection(type, up)
         IN  [outcome |-> r.outcome, log |-> r.log, fresh |-> r.outcome = "engine"]

\* the name of the row of a natural-keyed table with the key, None without such a row
NameOf(rows, key, column, k) ==
    IF \E r \in rows : r[key] = k THEN (CHOOSE r \in rows : r[key] = k)[column] ELSE None

\* the SELECT of each dataset function over the store (row order is not modelled)
Select(f, store) ==
    CASE f = "load_competitions_dataset" ->
            {[competition_id |-> c.competition_id, competition_name |-> c.competition_name,
              parent_id |-> c.parent_id, type |-> c.type, gender |-> c.gender, level |-> c.level,
              category_name |-> NameOf(store.categories, "category_id", "category_name", c.category_id)]
                : c \in store.competitions}
      [] f = "load_competitions" ->
            {[competition_id |-> c.competition_id, competition_name |-> c.competition_name,
              parent_id |-> c.parent_id,
              parent_name |-> NameOf(store.competitions, "competition_id", "competition_name", c.parent_id),
              type |-> c.type, gender |-> c.gender, level |-> c.level,
              category_name |-> NameOf(store.categories, "category_id", "category_name", c.category_id)]
                : c \in store.competitions}
      [] f = "load_venues_dataset" ->
            {[venue_id |-> v.venue_id, venue_name |-> v.venue_name, city_name |-> v.city_name,
              country_name |-> v.country_name, country_code |-> v.country_code, timezone |-> v.timezone,
              complex_name |-> NameOf(store.complexes, "complex_id", "complex_name", v.complex_id),
              complex_id |-> v.complex_id] : v \in store.venues}
      [] f = "load_complexes_and_venues" ->
            {[complex_id |-> cv[1].complex_id, complex_name |-> cv[1].complex_name,
              venue_id |-> cv[2].venue_id, venue_name |-> cv[2].venue_name,
              city_name |-> cv[2].city_name, country_name |-> cv[2].country_name,
              country_code |-> cv[2].country_code, timezone |-> cv[2].timezone]
                : cv \in {x \in store.complexes \X store.venues : x[2].complex_id = x[1].complex_id}}
            \cup {[complex_id |-> c.complex_id, complex_name |-> c.complex_name, venue_id |-> None,
                   venue_name |-> None, city_name |-> None, country_name |-> None,
                   country_code |-> None, timezone |-> None]
                    : c \in {x \in store.complexes : \A v \in store.venues : v.complex_id # x.complex_id}}
      [] OTHER ->
            \* the two rankings datasets; `row` tells apart equal rows of the result
            {[row |-> ic[1], rank |-> store.competitor_rankings[ic[1]].rank,
              movement |-> store.competitor_rankings[ic[1]].movement,
              points |-> store.competitor_rankings[ic[1]].points,
              competitions_played |-> store.competitor_rankings[ic[1]].competitions_played,
              competitor_id |-> ic[2].competitor_id, competitor_name |-> ic[2].name,
              country |-> ic[2].country, country_code |-> ic[2].country_code,
              abbreviation |-> ic[2].abbreviation]
                : ic \in {x \in (1..Len(store.competitor_rankings)) \X store.competitors :
                            store.competitor_rankings[x[1]].competitor_id = x[2].competitor_id}}

\* run_sql_query: the rows of the result under the columns of the query, or, when the
\* execution raises, the error message and a frame without columns
run_sql_query(f, store, fails) ==
    IF fails THEN [cols |-> FALSE, rows |-> {}] ELSE [cols |-> TRUE, rows |-> Select(f, store)]

\* a data cache that never holds an entry
Snapshot_never_cached(cache, f) == NotCached

\* @st.cache_data: the entry of the dataset function, if it has returned before
Snapshot(cache, f) == cache[f]

\* the frame a dataset function returns in this run: the cached one, or the query's
Dataset(cache, f, store, failing) ==
    IF Snapshot(cache, f).cached THEN Snapshot(cache, f).frame
    ELSE run_sql_query(f, store, f \in failing)

\* the dataset functions of the page whose body runs in this run
Missed(cache, p) == {f \in Range(Datasets[p]) : ~Snapshot(cache, f).cached}

\* Home.py reads competitions_df["category_name"] and rankings_df["country"] of the frames as
\* they come; the venues frame is only read after an emptiness check
RenderHome(data) ==
    IF ~data["load_competitions_dataset"].cols \/ ~data["load_competitor_rankings_dataset"].cols
    THEN "KeyError"
    ELSE "rendered"

\* the pages under pages/: `if dataset.empty: st.warning(...); st.stop()`
RenderPage(frame) == IF frame.rows = {} THEN "halted" ELSE "rendered"

Render(p, data) == IF p = "Home" THEN RenderHome(data) ELSE RenderPage(data[Datasets[p][1]])

MaxPageRuns == 2

\* one run of a page's script in the dashboard process: the connection, the datasets, the body
RunPage(p) ==
    /\ runs < MaxPageRuns
    /\ runs' = runs + 1
    /\ page' = p
    /\ \E up \in BOOLEAN, failing \in SUBSET Missed(data_cache, p) :
        LET a == CachedConnection(resource_cache, p, db_type, up)
            data == [f \in Range(Datasets[p]) |-> Dataset(data_cache, f, db, failing)]
        IN  IF a.outcome # "engine"
            THEN /\ shown' = [outcome |-> a.outcome, data |-> <<>>, after_loads |-> loads]
                 /\ server_log' = server_log \cup a.log
                 /\ UNCHANGED <<resource_cache, data_cache, acquired, queried>>
            ELSE /\ resource_cache' = [resource_cache EXCEPT ![ConnectionKey(p)] = "engine"]
                 /\ acquired' = IF a.fresh THEN acquired + 1 ELSE acquired
                 /\ data_cache' = [f \in DatasetFunctions |->
                                    IF f \in Range(Datasets[p])
                                    THEN [cached |-> TRUE, frame |-> data[f]]
                                    ELSE data_cache[f]]
                 /\ queried' = [f \in DatasetFunctions |->
                                    IF f \in Missed(data_cache, p) THEN queried[f] + 1 ELSE queried[f]]
                 /\ server_log' = server_log \cup a.log
                                    \cup {Sent("dashboard", f) : f \in Missed(data_cache, p)}
                 /\ shown' = [outcome |-> Render(p, data), data |-> data, after_loads |-> loads]
    /\ UNCHANGED <<extVars, loaderVars, runVars, db_type, startup>>

RunHome == RunPage("Home")

RunCompetitions == RunPage("Competitions")

RunVenues == RunPage("Venues")

RunRankings == RunPage("Rankings")

\* a loader process is started: DataLoader()
StartLoader ==
    /\ startup = "none"
    /\ \E up \in BOOLEAN :
        LET r == DataLoader_init(db_type, up)
        IN  startup' = r.outcome /\ server_log' = server_log \cup r.log
    /\ UNCHANGED <<extVars, loaderVars, runVars, db_type, resource_cache, data_cache, acquired, queried, page,
                   shown, runs>>

\* the store after a full load of the three responses in which no merge fails
full_load(store, competitions, complexes, rankings) ==
    LET c == get_competitions_data(competitions)
        x == get_complexes_data(complexes)
        r == get_doubles_competitor_rankings_data(rankings)
        s1 == Loaded(store, c.first, "categories")
        s2 == Loaded(s1, c.second, "competitions")
        s3 == Loaded(s2, x.first, "complexes")
        s4 == Loaded(s3, x.second, "venues")
        s5 == Loaded(s4, r.first, "competitors")
    IN  Loaded(s5, filter_rankings(r.first, r.second).df, "competitor_rankings")

\* a second feed: another competition and the competitors under new names
LaterCompetitions == Body(<<FullCompetition("c2", FullCategory("k1"))>>)

LaterRankings ==
    Body(<<Group(<<FullRanking(FullCompetitor("A", "n2")), FullRanking(FullCompetitor("B", "n2"))>>)>>)

\* a loader process runs a full load to its end while the dashboard process lives
FullLoad ==
    /\ loads < MaxLoads
    /\ loads' = loads + 1
    /\ \E fed \in {<<SeedCompetitions, SeedRankings>>, <<LaterCompetitions, LaterRankings>>} :
        db' = full_load(db, fed[1], SeedComplexes, fed[2])
    /\ UNCHANGED <<extVars, runVars, pc, load_stats, frames, attempted, outcome, last, feed, skipped_log,
                   raised, pageVars>>

\* the dashboard process starts with empty caches under the configured DB_TYPE
DashInit ==
    /\ ExtInit
    /\ LoaderInit
    /\ RunInit
    /\ db_type \in {DB_TYPE(env) : env \in EnvDbTypes}
    /\ startup = "none"
    /\ server_log = {}
    /\ resource_cache = [k \in ConnectionKeys |-> "none"]
    /\ data_cache = [f \in DatasetFunctions |-> NotCached]
    /\ acquired = 0
    /\ queried = [f \in DatasetFunctions |-> 0]
    /\ page = "none"
    /\ shown = NothingShown
    /\ runs = 0

DashNext == RunHome \/ RunCompetitions \/ RunVenues \/ RunRankings \/ StartLoader \/ FullLoad

SpecDash == DashInit /\ [][DashNext]_vars

(***************************************************************************)
(* Properties of the dashboard process (specification SpecDash)            *)
(***************************************************************************)
Supported == {"mysql", "postgresql"}

\* C13: with a DB_TYPE other than mysql or postgresql the construction of the loader and the
\* connection acquisition of a page both end in the Unsupported-type ValueError, and nothing
\* was asked of a database server.
C13_UnsupportedTypeFailsFirst ==
    db_type \notin Supported =>
        /\ server_log = {}
        /\ startup \in {"none", "ValueError"}
        /\ shown.outcome \in {"none", "ValueError"}

\* C13 witness: under DB_TYPE=oracle a loader was constructed and a page was run
C13_Witness ==
    /\ db_type = "oracle"
    /\ startup = "ValueError"
    /\ page = "Home"
    /\ shown.outcome = "ValueError"
    /\ server_log = {}

\* statements that create, change or delete something on the server
Writing == {CreateDatabase, "CREATE TABLE"}

\* C14: only the loader mutates the store: nothing the dashboard process asks of the server
\* creates, updates or deletes anything.
C14_DashboardNeverWrites == \A e \in server_log : e.who = "dashboard" => e.stmt \notin Writing

\* C15: once a dataset function has returned in the dashboard process, every later run
\* renders from that same frame whatever the loader commits in between, and the store is
\* asked for the dataset at most once.
C15_SnapshotKept ==
    [][\A f \in DatasetFunctions :
        /\ queried'[f] <= 1
        /\ data_cache[f].cached =>
            /\ data_cache'[f] = data_cache[f]
            /\ (runs' # runs /\ f \in DOMAIN shown'.data) => shown'.data[f] = data_cache[f].frame]_vars

\* C15 witness: the Competitions page was run again after a full load changed the table and
\* rendered from the frame of the first run, which is no longer what the store holds
C15_Witness ==
    /\ page = "Competitions"
    /\ runs = 2
    /\ shown.after_loads = 1
    /\ queried["load_competitions"] = 1
    /\ shown.data["load_competitions"].cols
    /\ shown.data["load_competitions"].rows # Select("load_competitions", db)

\* C16: the connection object is created at most once per dashboard process: connection
\* acquisition has succeeded at most once, whatever pages were loaded.
C16_ConnectionOnce == acquired <= 1

\* C17: when a dataset query of a page fails, the page renders to its end with an empty
\* result for that query: it neither halts nor raises a further error.
C17_QueryFailureDegrades ==
    (\E f \in DOMAIN shown.data : ~shown.data[f].cols) => shown.outcome = "rendered"

(***************************************************************************)
(* Home.py: the ranking controls (specification SpecHome)                  *)
(***************************************************************************)
Min2(a, b) == IF a <= b THEN a ELSE b

Max2(a, b) == IF a >= b THEN a ELSE b

MinOf(S) == CHOOSE x \in S : \A y \in S : x <= y

MaxOf(S) == CHOOSE x \in S : \A y \in S : x >= y

\* a control that is not built in this run
NotBuilt == [built |-> FALSE]

\* st.slider(min_value, max_value, value)
Slider(lo, hi, value) == [built |-> TRUE, min_value |-> lo, max_value |-> hi, value |-> value]

\* min_rank, max_rank of the rankings dataset (1 when it is empty)
min_rank(rankings) == IF rankings = {} THEN 1 ELSE MinOf({r.rank : r \in rankings})

max_rank(rankings) == IF rankings = {} THEN 1 ELSE MaxOf({r.rank : r \in rankings})

\* the "Rank Band" range slider: built only when min_rank < max_rank
RankBand(rankings) ==
    IF min_rank(rankings) < max_rank(rankings)
    THEN Slider(min_rank(rankings), max_rank(rankings),
                <<min_rank(rankings), Min2(max_rank(rankings), min_rank(rankings) + 99)>>)
    ELSE NotBuilt

\* the values selected_rank_range can take
RankRanges(rankings) ==
    IF RankBand(rankings).built
    THEN {<<lo, hi>> \in (min_rank(rankings)..max_rank(rankings)) \X (min_rank(rankings)..max_rank(rankings)) :
            lo <= hi}
    ELSE {<<min_rank(rankings), max_rank(rankings)>>}

\* apply_ranking_filters
apply_ranking_filters(data, selected_countries, selected_rank_range) ==
    {r \in data :
        /\ selected_countries # {} => r.country \in selected_countries
        /\ r.rank >= selected_rank_range[1]
        /\ r.rank <= selected_rank_range[2]}

\* tab_overview: the "Rolling Window (Ranks)" slider, inside `if not filtered_rankings.empty`
smoothing_window(filtered_rankings) ==
    LET n == Cardinality(filtered_rankings)
    IN  IF n = 0 THEN NotBuilt
        ELSE Slider(1, Min2(25, n), IF n >= 5 THEN Min2(5, n) ELSE 1)

\* tab_trends: the "Number of Rank Buckets" slider
rank_bin_slider(filtered_rankings, selected_rank_range) ==
    LET max_available_ranks == selected_rank_range[2] - selected_rank_range[1]
    IN  IF filtered_rankings = {} \/ max_available_ranks < 1 THEN NotBuilt
        ELSE Slider(5, Min2(30, max_available_ranks), Min2(12, max_available_ranks))

\* tab_trends: the "Number of Countries to Highlight" slider
top_country_count(filtered_rankings) ==
    LET country_unique == Cardinality({r.country : r \in filtered_rankings})
        slider_min == IF country_unique = 1 THEN 1 ELSE Min2(3, country_unique)
        slider_max == Min2(12, country_unique)
    IN  IF filtered_rankings = {} \/ country_unique = 0 \/ slider_min = slider_max THEN NotBuilt
        ELSE Slider(slider_min, slider_max, Min2(slider_max, Max2(slider_min, 6)))

\* st.slider raises StreamlitAPIException for a default value outside [min_value, max_value]
SliderAccepted(c) == ~c.built \/ (c.min_value <= c.value /\ c.value <= c.max_value)

\* the ranking controls of one run of the page body and how tab_trends ends
HomeControls(rankings, selected_countries, selected_rank_range) ==
    LET filtered_rankings == apply_ranking_filters(rankings, selected_countries, selected_rank_range)
        buckets == rank_bin_slider(filtered_rankings, selected_rank_range)
    IN  [filtered |-> Cardinality(filtered_rankings),
         band |-> RankBand(rankings),
         smoothing |-> smoothing_window(filtered_rankings),
         buckets |-> buckets,
         countries |-> IF SliderAccepted(buckets) THEN top_country_count(filtered_rankings) ELSE NotBuilt,
         trends |-> IF filtered_rankings = {} THEN "placeholder"
                    ELSE IF ~SliderAccepted(buckets) THEN "StreamlitAPIException"
                    ELSE "rendered"]

MaxRank == 7

MaxRows == 2

Countries == {"France", "Spain"}

\* rankings datasets of up to MaxRows rows
RankingRows == [rank : 1..MaxRank, country : Countries]

RankingDatasets == {d \in SUBSET RankingRows : Cardinality(d) <= MaxRows}

RenderHomeControls ==
    /\ extOp = "none"
    /\ \E d \in RankingDatasets :
        \E sc \in SUBSET {r.country : r \in d}, range \in RankRanges(d) :
            Extraction("home", [rankings |-> d, selected_countries |-> sc, selected_rank_range |-> range],
                       HomeControls(d, sc, range))

HomeNext == RenderHomeControls

SpecHome == Init /\ [][HomeNext]_vars

\* C18: on the Home page every view with an empty input shows its placeholder and every
\* control that is built has minimum <= default <= maximum, the rank-bucket control included
\* when the selected rank span is between 1 and 4.
C18_ControlsWithinBounds ==
    extOp = "home" =>
        /\ extResult.filtered = 0 => extResult.trends = "placeholder" /\ ~extResult.smoothing.built
        /\ extResult.band.built =>
            /\ extResult.band.min_value <= extResult.band.value[1]
            /\ extResult.band.value[1] <= extResult.band.value[2]
            /\ extResult.band.value[2] <= extResult.band.max_value
        /\ SliderAccepted(extResult.smoothing)
        /\ SliderAccepted(extResult.countries)
        /\ SliderAccepted(extResult.buckets)
        /\ extResult.trends # "StreamlitAPIException"

(***************************************************************************)
(* 1_Competitions.py: filters and summary metrics                          *)
(* (specification SpecCompetitionsPage)                                    *)
(***************************************************************************)
\* sorted(... column.dropna().unique()): the options of a multiselect
OptionsOf(data, column) == {r[column] : r \in data} \ {None}

\* filtered[filtered[column].isin(selected)], applied only for a non-empty selection
IsIn(data, column, selected) ==
    IF selected = {} THEN data ELSE {r \in data : r[column] \in selected}

\* apply_filters
apply_filters(data, categories, types, genders, levels, parent_filter) ==
    LET filtered == IsIn(IsIn(IsIn(IsIn(data, "category_name", categories),
                                   "type", types),
                              "gender", genders),
                         "level", levels)
    IN  IF parent_filter = "Top Level" THEN {r \in filtered : r.parent_id = None}
        ELSE IF parent_filter = "Sub-competition" THEN {r \in filtered : r.parent_id # None}
        ELSE filtered

\* f"{value:.1f}%" of part / total * 100, as the digits before and after the point
Percent1f(part, total) ==
    LET tenths == (2000 * part + total) \div (2 * total)
    IN  [whole |-> tenths \div 10, tenth |-> tenths % 10]

\* summary_col3: the "Sub-competition Share" metric of the filtered competitions
sub_percentage(filtered_competitions) ==
    LET sub_ratio == <<Cardinality({r \in filtered_competitions : r.parent_id # None}),
                       Cardinality(filtered_competitions)>>
    IN  IF sub_ratio[2] # 0 THEN Percent1f(sub_ratio[1], sub_ratio[2]) ELSE [whole |-> 0, tenth |-> 0]

\* the page body up to the summary metrics
CompetitionsSummary(data, selected_levels, parent_filter) ==
    LET filtered_competitions ==
            apply_filters(data, OptionsOf(data, "category_name"), OptionsOf(data, "type"),
                          OptionsOf(data, "gender"), selected_levels, parent_filter)
    IN  [rows |-> filtered_competitions, share |-> sub_percentage(filtered_competitions)]

DatasetSize == 10

\* a dataset of DatasetSize competitions: the first `subs` have a parent, those in `untagged`
\* have no level
CompetitionsDataset(subs, untagged) ==
    {[competition_id |-> i, competition_name |-> "Open", parent_id |-> IF i <= subs THEN "p1" ELSE None,
      type |-> "singles", gender |-> "men", level |-> IF i \in untagged THEN None ELSE "atp_250",
      category_name |-> "ATP"] : i \in 1..DatasetSize}

HierarchyFocus == {"All", "Top Level", "Sub-competition"}

\* the level selection is the default (every option) or was cleared
RenderCompetitionsSummary ==
    /\ extOp = "none"
    /\ \E subs \in 0..DatasetSize, untagged \in SUBSET {1, DatasetSize}, parent_filter \in HierarchyFocus,
          cleared \in BOOLEAN :
        LET data == CompetitionsDataset(subs, untagged)
            selected_levels == IF cleared THEN {} ELSE OptionsOf(data, "level")
        IN  Extraction("competitions_page",
                       [data |-> data, subs |-> subs, untagged |-> untagged,
                        selected_levels |-> selected_levels, parent_filter |-> parent_filter],
                       CompetitionsSummary(data, selected_levels, parent_filter))

CompetitionsPageNext == RenderCompetitionsSummary

SpecCompetitionsPage == Init /\ [][CompetitionsPageNext]_vars

\* C19: for 10 competitions of which 4 have a parent, the hierarchy option "Sub-competition"
\* yields exactly those 4 rows and the sub-competition share reads 40.0%.
C19_SubCompetitionShare ==
    (/\ extOp = "competitions_page"
     /\ Cardinality(extData.data) = 10
     /\ extData.subs = 4
     /\ extData.parent_filter = "Sub-competition") =>
        /\ extResult.rows = {r \in extData.data : r.parent_id # None}
        /\ extResult.share = [whole |-> 40, tenth |-> 0]

(***************************************************************************)
(* 3_Competitor_Rankings.py: tab_profiles (specification SpecProfiles)     *)
(***************************************************************************)
RankWindow == 5

ComparableLimit == 10

RECURSIVE InsertByRank(_, _)
\* the row put behind the rows of the sorted list whose rank is not larger
InsertByRank(sorted, row) ==
    IF sorted = <<>> THEN <<row>>
    ELSE IF Head(sorted).rank <= row.rank THEN <<Head(sorted)>> \o InsertByRank(Tail(sorted), row)
    ELSE <<row>> \o sorted

RECURSIVE SortByRank(_)
\* ascending by rank, rows of equal rank in their order of appearance
SortByRank(rows) ==
    IF rows = <<>> THEN <<>>
    ELSE InsertByRank(SortByRank(SubSeq(rows, 1, Len(rows) - 1)), rows[Len(rows)])

\* DataFrame.nsmallest(n, "rank")
nsmallest(rows, n) == SubSeq(SortByRank(rows), 1, Min2(n, Len(rows)))

\* profile.iloc[0]: the first row of the selected competitor
profile_row(filtered_dataset, selected_competitor) ==
    filtered_dataset[CHOOSE i \in 1..Len(filtered_dataset) :
                        /\ filtered_dataset[i].competitor_name = selected_competitor
                        /\ \A j \in 1..(i - 1) : filtered_dataset[j].competitor_name # selected_competitor]

\* Series.between(left, right), both ends included
Between(value, left, right) == left <= value /\ value <= right

\* the "Comparable Competitors" table
comparable(filtered_dataset, selected_competitor) ==
    LET r == profile_row(filtered_dataset, selected_competitor).rank
        candidates == SelectSeq(filtered_dataset,
                                LAMBDA row : /\ row.competitor_name # selected_competitor
                                             /\ Between(row.rank, r - RankWindow, r + RankWindow))
    IN  nsmallest(candidates, ComparableLimit)

MaxProfiles == 3

ProfileNames == {"Ana", "Bo", "Cy"}

ProfileRows == [competitor_name : ProfileNames, rank : 1..MaxRank]

\* a field of twelve other competitors on the ranks 1 to 11 around the selected one
Crowded(r) ==
    <<[competitor_name |-> "Ana", rank |-> r]>>
    \o [i \in 1..12 |-> [competitor_name |-> IF i % 2 = 0 THEN "Bo" ELSE "Cy", rank |-> 1 + (i % 11)]]

ProfileDatasets ==
    {d \in SeqUpTo(ProfileRows, MaxProfiles) : d # <<>>} \cup {Crowded(r) : r \in 1..MaxRank}

RenderProfile ==
    /\ extOp = "none"
    /\ \E d \in ProfileDatasets :
        \E selected \in {d[i].competitor_name : i \in 1..Len(d)} :
            Extraction("profiles", [dataset |-> d, selected_competitor |-> selected],
                       comparable(d, selected))

ProfilesNext == RenderProfile

SpecProfiles == Init /\ [][ProfilesNext]_vars

Abs(x) == IF x < 0 THEN 0 - x ELSE x

\* C20: the comparable-competitors table of a competitor at rank r has at most 10 rows, each
\* with a rank in [r-5, r+5], none of them the selected competitor, ordered by increasing
\* distance |rank - r|.
C20_ComparableNearestFirst ==
    extOp = "profiles" =>
        LET r == profile_row(extData.dataset, extData.selected_competitor).rank
        IN  /\ Len(extResult) <= 10
            /\ \A i \in 1..Len(extResult) :
                /\ extResult[i].rank >= r - 5
                /\ extResult[i].rank <= r + 5
                /\ extResult[i].competitor_name # extData.selected_competitor
            /\ \A i \in 1..(Len(extResult) - 1) :
                Abs(extResult[i].rank - r) <= Abs(extResult[i + 1].rank - r)

\* what the table does keep: at most ten rows, inside the window, without the selected
\* competitor, and in ascending order of rank
ComparableByRank ==
    extOp = "profiles" =>
        LET r == profile_row(extData.dataset, extData.selected_competitor).rank
        IN  /\ Len(extResult) <= ComparableLimit
            /\ \A i \in 1..Len(extResult) :
                /\ Between(extResult[i].rank, r - RankWindow, r + RankWindow)
                /\ extResult[i].competitor_name # extData.selected_competitor
            /\ \A i \in 1..(Len(extResult) - 1) : extResult[i].rank <= extResult[i + 1].rank

\* more than ten candidates in the window: the table is cut to ten
ComparableCut ==
    /\ extOp = "profiles"
    /\ Len(extResult) = ComparableLimit
    /\ Len(extData.dataset) > ComparableLimit + 1

(***************************************************************************)
(* Home.py: movement buckets of the momentum focus (specification          *)
(* SpecMomentum)                                                           *)
(***************************************************************************)
bins == <<-50, -10, -5, 0, 5, 10, 50>>

\* the labels, with "<=" and ">=" written for the signs of the source
labels == <<"<=-10", "-9 to -5", "-4 to 0", "1 to 5", "6 to 10", ">=11">>

NaN == "nan"

\* pd.cut(x, bins, labels, right=False): intervals closed on the left, open on the right
cut_left_closed(x, include_lowest) ==
    IF \E i \in 1..Len(labels) : bins[i] <= x /\ x < bins[i + 1]
    THEN labels[CHOOSE i \in 1..Len(labels) : bins[i] <= x /\ x < bins[i + 1]]
    ELSE NaN

\* pd.cut(x, bins, labels) with right=True: intervals (bins[i], bins[i+1]], the first one
\* taking its left edge too when include_lowest is set; an integer in no interval gets
\* no label
cut(x, include_lowest) ==
    IF \E i \in 1..Len(labels) : bins[i] < x /\ x <= bins[i + 1]
    THEN labels[CHOOSE i \in 1..Len(labels) : bins[i] < x /\ x <= bins[i + 1]]
    ELSE IF include_lowest /\ x = bins[1] THEN labels[1]
    ELSE NaN

\* the grouping key of the bar chart and the per-bucket count of distinct competitors
movement_summary(momentum_focus) ==
    [l \in {labels[i] : i \in 1..Len(labels)} |->
        Cardinality({row.competitor_id : row \in {r \in momentum_focus : cut(r.movement, FALSE) = l}})]

\* bubble_df: the rows with their movement_bucket, rows without one dropped
bubble_df(momentum_focus) ==
    {row \in [competitor_id : {r.competitor_id : r \in momentum_focus},
              movement : {r.movement : r \in momentum_focus},
              movement_bucket : {labels[i] : i \in 1..Len(labels)}] :
        /\ [competitor_id |-> row.competitor_id, movement |-> row.movement] \in momentum_focus
        /\ row.movement_bucket = cut(row.movement, TRUE)}

MovementSpan == 52

Movements == (0 - MovementSpan)..MovementSpan

\* a ranking row of the momentum focus
MomentumRow(competitor_id, movement) == [competitor_id |-> competitor_id, movement |-> movement]

\* a non-empty momentum focus of one or two ranking rows
RenderMomentum ==
    /\ extOp = "none"
    /\ \E id1, id2 \in {1, 2} :
        \E m1, m2 \in Movements :
            LET momentum_focus == {MomentumRow(id1, m1), MomentumRow(id2, m2)}
            IN  Extraction("momentum", momentum_focus,
                           [bar_bucket |-> [row \in momentum_focus |-> cut(row.movement, FALSE)],
                            movement_summary |-> movement_summary(momentum_focus),
                            bubble_df |-> bubble_df(momentum_focus)])

MomentumNext == RenderMomentum

SpecMomentum == Init /\ [][MomentumNext]_vars

\* C21: movement buckets are left-open, right-closed intervals over the bins
\* [-50,-10,-5,0,5,10,50]: -10 falls in "<=-10", -9 in "-9 to -5", and each boundary value
\* belongs to the bucket on its left.
C21_BoundaryBelongsLeft ==
    extOp = "momentum" =>
        \A row \in extData :
            /\ row.movement = -10 => extResult.bar_bucket[row] = "<=-10"
            /\ row.movement = -9 => extResult.bar_bucket[row] = "-9 to -5"
            /\ \A i \in 1..Len(labels) :
                /\ row.movement = bins[i + 1] => extResult.bar_bucket[row] = labels[i]
                /\ row.movement = bins[i] => extResult.bar_bucket[row] # labels[i]
                /\ extResult.bar_bucket[row] = labels[i]
                       => (/\ extResult.movement_summary[labels[i]] >= 1
                           /\ bins[i] < row.movement
                           /\ row.movement <= bins[i + 1])

C21_Witness ==
    /\ extOp = "momentum"
    /\ \E a, b \in extData :
        /\ a.movement = -10
        /\ b.movement = -9
        /\ extResult.bar_bucket[a] = "<=-10"
        /\ extResult.bar_bucket[b] = "-9 to -5"
        /\ extResult.movement_summary["<=-10"] = 1
        /\ extResult.movement_summary["-9 to -5"] = 1

(***************************************************************************)
(* The store across full loads (specification Spec)                        *)
(***************************************************************************)
\* the primary keys present in a table; rank_id is the position of a ranking row
PresentKeys(store, t) ==
    IF t = "competitor_rankings" THEN 1..Len(store[t]) ELSE Keys(store, t)

\* C22: no row is ever deleted: across full loads, with failing merges and with feeds that
\* no longer carry an entity, the set of primary keys of each of the six tables never shrinks.
C22_KeysNeverShrink ==
    [][\A t \in Tables : PresentKeys(db, t) \subseteq PresentKeys(db', t)]_vars

\* C22 witness: a full load on a store an earlier load had filled has ended; its competitions
\* merge failed and its feed carried one of the two competitors only, and the rows of the
\* earlier load are all still there
C22_Witness ==
    /\ loads = 1
    /\ pc = "done"
    /\ outcome["competitions"] = "failed"
    /\ outcome["competitors"] = "committed"
    /\ load_stats["competitors"] = 1
    /\ PresentKeys(db, "competitions") = PresentKeys(SeededStore, "competitions")
    /\ Cardinality(PresentKeys(db, "competitors")) = 2
    /\ Len(db["competitor_rankings"]) > Len(SeededStore["competitor_rankings"])

(***************************************************************************)
(* Two loader processes against one store, one action per statement of     *)
(* _insert_dataframe (specification SpecConcurrent).  A merge reads the    *)
(* committed row of its primary key; the flush of session.commit() writes  *)
(* an INSERT for a key the merge did not find and an UPDATE of the columns *)
(* whose value differs from the row the merge loaded, and commits; writers *)
(* of one table are serialised by the server.                              *)
(***************************************************************************)
\* the provider's complexes feed before and after a rename of the complex
ComplexesAt(e) ==
    Body(<<[FullComplex("x1", <<FullVenue("v1")>>) EXCEPT !.name = IF e = "n1" THEN "Arena" ELSE "Dome"]>>)

\* the provider's rankings feed before and after a rename of competitor A
RankingsAt(e) ==
    Body(<<Group(<<FullRanking(FullCompetitor("A", e)), FullRanking(FullCompetitor("B", "n1"))>>)>>)

\* self.Session()
session_open(counts) == [counts EXCEPT !.opened = @ + 1]

\* a finally clause that leaves the session open
session_close_skipped(counts) == counts

\* session.close()
session_close(counts) == [counts EXCEPT !.closed = @ + 1]

\* the sessions of a run that are open
OpenSessions(r) == sessions[r].opened - sessions[r].closed

\* the rows session.merge loads for the batch: the stored rows with a primary key of the batch
LoadedRows(store, table, df) ==
    IF table \notin NaturalKeyed THEN {}
    ELSE {x \in store[table] : \E i \in 1..LenDF(df) : df.rows[i][PrimaryKey[table]] = x[PrimaryKey[table]]}

\* the UPDATE of a loaded row: the columns the record changed, on the row as it is now
Changed(loaded, current, record) ==
    [col \in DOMAIN record |-> IF record[col] = loaded[col] THEN current[col] ELSE record[col]]

RECURSIVE FlushAll(_, _, _, _, _, _)
\* the flush of the batch: the table afterwards and the error raised; `mine` are the keys this
\* session has already written
FlushAll(store, table, rows, loaded, records, mine) ==
    IF records = <<>> THEN [error |-> "none", rows |-> rows]
    ELSE LET record == Head(records)
             k == record[PrimaryKey[table]]
             old == {x \in loaded : x[PrimaryKey[table]] = k}
             cur == {x \in rows : x[PrimaryKey[table]] = k}
         IN  IF ~Accepts(store, table, record) THEN [error |-> "IntegrityError", rows |-> rows]
             ELSE IF table \notin NaturalKeyed
             THEN FlushAll(store, table, Append(rows, record), loaded, Tail(records), mine)
             ELSE IF k \in mine
             THEN FlushAll(store, table, (rows \ cur) \cup {record}, loaded, Tail(records), mine)
             ELSE IF old = {}
             THEN IF cur # {} THEN [error |-> "IntegrityError", rows |-> rows]
                  ELSE FlushAll(store, table, rows \cup {record}, loaded, Tail(records), mine \cup {k})
             ELSE FlushAll(store, table,
                           (rows \ cur) \cup {Changed(CHOOSE o \in old : TRUE, CHOOSE c \in cur : TRUE, record)},
                           loaded, Tail(records), mine \cup {k})

At(step, phase) == [step |-> step, phase |-> phase]

\* the loader process r calls load_all_data
RunStart(r) ==
    /\ run_pc[r] = At("ready", "call")
    /\ run_pc' = [run_pc EXCEPT ![r] = At("extract_competitions", "call")]
    /\ UNCHANGED <<run_frames, run_session, sessions, run_stats, commits, extVars, loaderVars, pageVars>>

RunExtract(r, step, result, firstName, secondName) ==
    /\ run_pc[r] = At(step, "call")
    /\ IF result.raised # "none"
       THEN /\ run_pc' = [run_pc EXCEPT ![r] = At("aborted", "call")]
            /\ run_frames' = run_frames
       ELSE /\ run_pc' = [run_pc EXCEPT ![r] = At(StepAfter(step), "call")]
            /\ run_frames' = [run_frames EXCEPT ![r][firstName] = result.first,
                                                ![r][secondName] = result.second]
    /\ UNCHANGED <<run_session, sessions, run_stats, commits, extVars, loaderVars, pageVars>>

RunExtractCompetitions(r) ==
    /\ run_pc[r] = At("extract_competitions", "call")
    /\ RunExtract(r, "extract_competitions", get_competitions_data(SeedCompetitions),
                  "categories", "competitions")

\* the complexes response of a run: one of the given feeds
RunExtractComplexes(r, feeds) ==
    /\ run_pc[r] = At("extract_complexes", "call")
    /\ \E data \in feeds :
        RunExtract(r, "extract_complexes", get_complexes_data(data), "complexes", "venues")

\* the rankings response of a run: the feed of one of the given moments
RunExtractRankings(r, editions) ==
    /\ run_pc[r] = At("extract_rankings", "call")
    /\ \E e \in editions :
        RunExtract(r, "extract_rankings", get_doubles_competitor_rankings_data(RankingsAt(e)),
                   "competitors", "rankings")

\* the moment of the complexes feed a run holds
EditionOf(r) ==
    {e \in CompetitorNames : run_frames[r].complexes = get_complexes_data(ComplexesAt(e)).first}

\* _insert_dataframe up to the end of the merge loop: return on an empty frame, otherwise
\* open a session and merge every record
RunCall(r) ==
    /\ run_pc[r].step \in Tables
    /\ run_pc[r].phase = "call"
    /\ LET table == run_pc[r].step
           df == run_frames[r][table]
       IN  IF IsEmpty(df)
           THEN /\ run_pc' = [run_pc EXCEPT ![r] = At(StepAfter(table), "call")]
                /\ UNCHANGED <<run_session, sessions>>
           ELSE /\ run_pc' = [run_pc EXCEPT ![r] = At(table, "commit")]
                /\ sessions' = [sessions EXCEPT ![r] = session_open(@)]
                /\ run_session' = [run_session EXCEPT ![r] =
                                      [loaded |-> LoadedRows(db, table, df), error |-> "none"]]
    /\ UNCHANGED <<run_frames, run_stats, commits, extVars, loaderVars, pageVars>>

\* session.commit() and the except clauses: the batch is written and committed, or an error
\* of one of the three kinds is caught and the session rolled back
RunCommit(r, faults) ==
    /\ run_pc[r].step \in Tables
    /\ run_pc[r].phase = "commit"
    /\ \E fault \in {"none"} \cup faults :
        LET table == run_pc[r].step
            df == run_frames[r][table]
            f == IF fault # "none" THEN [error |-> fault, rows |-> db[table]]
                 ELSE FlushAll(db, table, db[table], run_session[r].loaded, df.rows, {})
        IN  /\ db' = [db EXCEPT ![table] = IF f.error = "none" THEN f.rows ELSE rollback(db[table], f.rows)]
            /\ commits' = IF f.error = "none" THEN [commits EXCEPT ![table] = Append(@, r)] ELSE commits
            /\ run_stats' = IF f.error = "none"
                            THEN [run_stats EXCEPT ![r][table] = @ + LenDF(df)] ELSE run_stats
            /\ run_session' = [run_session EXCEPT ![r].error = f.error]
    /\ run_pc' = [run_pc EXCEPT ![r].phase = "finally"]
    /\ UNCHANGED <<run_frames, sessions, extVars, pageVars,
                   pc, loads, load_stats, frames, attempted, outcome, last, feed, skipped_log, raised>>

\* finally: session.close(), and the call returns
RunFinally(r) ==
    /\ run_pc[r].step \in Tables
    /\ run_pc[r].phase = "finally"
    /\ sessions' = [sessions EXCEPT ![r] = session_close(@)]
    /\ run_session' = [run_session EXCEPT ![r] = NoSession]
    /\ run_pc' = [run_pc EXCEPT ![r] = At(StepAfter(run_pc[r].step), "call")]
    /\ UNCHANGED <<run_frames, run_stats, commits, extVars, loaderVars, pageVars>>

RunFilterRankings(r) ==
    /\ run_pc[r] = At("filter_rankings", "call")
    /\ LET f == filter_rankings(run_frames[r].competitors, run_frames[r].rankings)
       IN  IF f.raised # "none"
           THEN /\ run_pc' = [run_pc EXCEPT ![r] = At("aborted", "call")]
                /\ run_frames' = run_frames
           ELSE /\ run_pc' = [run_pc EXCEPT ![r] = At("competitor_rankings", "call")]
                /\ run_frames' = [run_frames EXCEPT ![r].competitor_rankings = f.df]
    /\ UNCHANGED <<run_session, sessions, run_stats, commits, extVars, loaderVars, pageVars>>

RunSummary(r) ==
    /\ run_pc[r] = At("summary", "call")
    /\ run_pc' = [run_pc EXCEPT ![r] = At("done", "call")]
    /\ UNCHANGED <<run_frames, run_session, sessions, run_stats, commits, extVars, loaderVars, pageVars>>

\* the complexes feed of either moment
ComplexesEditions == {ComplexesAt("n1"), ComplexesAt("n2")}

\* the errors a failing server raises at a commit
ServerFaults == {"SQLAlchemyError", "Exception"}

NoServerFaults == {}

\* both runs, each on the provider's feed of one moment, the server free of faults
ConcurrentNext ==
    \E r \in Runs :
        \/ RunStart(r)
        \/ RunExtractCompetitions(r)
        \/ RunExtractComplexes(r, ComplexesEditions)
        \/ RunExtractRankings(r, EditionOf(r))
        \/ RunCall(r)
        \/ RunCommit(r, NoServerFaults)
        \/ RunFinally(r)
        \/ RunFilterRankings(r)
        \/ RunSummary(r)

SpecConcurrent == Init /\ [][ConcurrentNext]_vars

AllRunsEnded == \A r \in Runs : run_pc[r].step \in {"done", "aborted"}

\* the run whose commit of the table came last among the runs that submitted the key
LastWriter(table, k) ==
    LET writers == {i \in 1..Len(commits[table]) :
                        \E x \in Range(run_frames[commits[table][i]][table].rows) :
                            x[PrimaryKey[table]] = k}
    IN  IF writers = {} THEN "none"
        ELSE commits[table][CHOOSE i \in writers : \A j \in writers : j <= i]

\* C23: two concurrent full loads interleave per table commit, and for each natural-keyed row
\* the final value is the one written by the run whose commit of that table came last.
C23_LastWriterWins ==
    AllRunsEnded =>
        \A table \in NaturalKeyed :
            \A row \in db[table] :
                LET w == LastWriter(table, row[PrimaryKey[table]])
                IN  w # "none" => row \in Range(run_frames[w][table].rows)

\* the final store holds the complexes table of one run and the competitors table of the other
MixedTables ==
    /\ AllRunsEnded
    /\ \E r1, r2 \in Runs :
        /\ r1 # r2
        /\ run_frames[r1].complexes # run_frames[r2].complexes
        /\ run_frames[r1].competitors # run_frames[r2].competitors
        /\ Range(run_frames[r1].complexes.rows) = db.complexes
        /\ Range(run_frames[r2].competitors.rows) = db.competitors

(***************************************************************************)
(* One loader process, statement by statement, with a server that may fail *)
(* any batch (specification SpecSessions)                                  *)
(***************************************************************************)
\* the complexes request returns nothing, or the feed of either moment
SessionsComplexes == {Absent, ComplexesAt("n1"), ComplexesAt("n2")}

SessionsNext ==
    \/ RunStart("A")
    \/ RunExtractCompetitions("A")
    \/ RunExtractComplexes("A", SessionsComplexes)
    \/ RunExtractRankings("A", CompetitorNames)
    \/ RunCall("A")
    \/ RunCommit("A", ServerFaults)
    \/ RunFinally("A")
    \/ RunFilterRankings("A")
    \/ RunSummary("A")

SpecSessions == Init /\ [][SessionsNext]_vars

\* C25: sessions never leak: a merge call that opens a session closes it exactly once before
\* it returns, on the success path and on each failure path; a merge call with an empty
\* record set opens none; between merge calls no session is open.
C25_SessionsNeverLeak ==
    /\ [](\A r \in Runs :
            /\ OpenSessions(r) \in {0, 1}
            /\ run_pc[r].phase = "call" => OpenSessions(r) = 0
            /\ run_pc[r].phase \in {"commit", "finally"} => OpenSessions(r) = 1)
    /\ [][\A r \in Runs :
            (run_pc[r].step \in Tables /\ run_pc'[r] # run_pc[r]) =>
                CASE run_pc[r].phase = "call" ->
                        /\ sessions'[r].closed = sessions[r].closed
                        /\ sessions'[r].opened = sessions[r].opened
                               + (IF IsEmpty(run_frames[r][run_pc[r].step]) THEN 0 ELSE 1)
                  [] run_pc[r].phase = "commit" -> sessions'[r] = sessions[r]
                  [] run_pc[r].phase = "finally" ->
                        /\ sessions'[r].opened = sessions[r].opened
                        /\ sessions'[r].closed = sessions[r].closed + 1
                        /\ run_pc'[r].phase = "call"]_vars

\* C25 witness: a full load has ended in which two merge calls had nothing to insert, one
\* batch was refused by a fault, one by the foreign key and two were committed; four
\* sessions were opened and four closed
C25_Witness ==
    /\ run_pc["A"].step = "done"
    /\ sessions["A"] = [opened |-> 4, closed |-> 4]
    /\ IsEmpty(run_frames["A"].complexes)
    /\ IsEmpty(run_frames["A"].venues)
    /\ commits["categories"] = <<>>
    /\ commits["competitions"] = <<>>
    /\ db.competitions = {}
    /\ commits["competitors"] = <<"A">>
    /\ commits["competitor_rankings"] = <<"A">>

\* the session of a batch the foreign key refused is in its finally clause
IntegrityErrorPath ==
    /\ run_pc["A"] = At("competitions", "finally")
    /\ run_session["A"].error = "IntegrityError"
    /\ OpenSessions("A") = 1

(***************************************************************************)
(* Ranking history across full loads (specification SpecStats)             *)
(***************************************************************************)
\* every batch of every full load so far was the batch of the complete feed, and committed
AllLoadsComplete ==
    /\ pc = "done"
    /\ \A t \in NaturalKeyed : load_stats[t] = loads * Cardinality(SeededStore[t])
    /\ load_stats["competitor_rankings"] = loads * Len(SeededStore["competitor_rankings"])

\* C24: ranking rows are appended, never updated: a committed rankings batch adds one row per
\* record and leaves the earlier rows alone, so n successful loads of the same feed with k
\* ranking records add n*k rows, while the five natural-keyed tables have the same row counts
\* after the n-th load as after the first.
C24_RankingsAppendOnly ==
    /\ [][/\ Len(db'["competitor_rankings"]) = Len(db["competitor_rankings"])
                + (IF pc = "competitor_rankings" /\ last'.outcome = "committed"
                   THEN LenDF(frames["competitor_rankings"]) ELSE 0)
          /\ SubSeq(db'["competitor_rankings"], 1, Len(db["competitor_rankings"]))
                = db["competitor_rankings"]]_vars
    /\ [](AllLoadsComplete =>
            /\ \A t \in NaturalKeyed : Cardinality(db[t]) = Cardinality(SeededStore[t])
            /\ Len(db["competitor_rankings"]) - loads * Len(SeededStore["competitor_rankings"])
                   \in {0, Len(SeededStore["competitor_rankings"])})

\* C24 witness: two complete loads on an empty store: two ranking records each, four ranking
\* rows, two competitors
C24_Witness ==
    /\ AllLoadsComplete
    /\ loads = 2
    /\ Len(db["competitor_rankings"]) = 4
    /\ db["competitor_rankings"][1] = db["competitor_rankings"][3]
    /\ Cardinality(db["competitors"]) = 2

(***************************************************************************)
(* The category references of one competitions extraction (specification   *)
(* Spec)                                                                   *)
(***************************************************************************)
\* C26: within one competitions extraction every competition record with a non-null
\* category_id refers to a category of the categories record set of the same extraction,
\* also when an upstream category has an id but no name.
C26_CategoryReferencesResolve ==
    pc \in {"categories", "competitions"} =>
        \A i \in 1..LenDF(frames["competitions"]) :
            frames["competitions"].rows[i].category_id # None =>
                \E j \in 1..LenDF(frames["categories"]) :
                    frames["categories"].rows[j].category_id
                        = frames["competitions"].rows[i].category_id

(***************************************************************************)
(* The multiselect filters of the four pages (specification SpecFilters)   *)
(***************************************************************************)
\* 2_Complexes_Venues.py: apply_filters
venues_apply_filters(data, countries, timezones, complexes) ==
    IsIn(IsIn(IsIn(data, "country_name", countries), "timezone", timezones),
         "complex_name", complexes)

\* 3_Competitor_Rankings.py: apply_filters, the name search empty
rankings_apply_filters(data, countries, rank_range) ==
    {r \in IsIn(data, "country", countries) : r.rank >= rank_range[1] /\ r.rank <= rank_range[2]}

\* Home.py: apply_competition_filters
apply_competition_filters(data, categories, types, genders, levels) ==
    IsIn(IsIn(IsIn(IsIn(data, "category_name", categories), "type", types), "gender", genders),
         "level", levels)

\* the rows of a page for the default selection, for a selection and for a part of it
Filtered(p, data, by_default, wide, narrow) ==
    [page |-> p, by_default |-> by_default, wide |-> wide, narrow |-> narrow]

\* a competition of the dataset of the Competitions page and of Home
CompetitionRow(i, category_name, level) ==
    [competition_id |-> i, competition_name |-> "Open", parent_id |-> None, type |-> "singles",
     gender |-> "men", level |-> level, category_name |-> category_name]

\* a complex of the LEFT JOIN of the venues page: with its venue, or with NULL venue columns
VenueRow(i, country_name) ==
    [complex_id |-> i, complex_name |-> IF i = 1 THEN "Arena" ELSE "Dome",
     venue_id |-> IF country_name = None THEN None ELSE "v1",
     country_name |-> country_name,
     timezone |-> IF country_name = None THEN None ELSE "Europe/London"]

RankingRow(i, country) == [competitor_name |-> IF i = 1 THEN "Ana" ELSE "Bo", country |-> country, rank |-> i]

\* 1_Competitions.py: the Categories multiselect at `wide` and at `narrow`, the rest at default
FilterCompetitions ==
    /\ extOp = "none"
    /\ \E c1, c2 \in {"ATP", "WTA", None}, l1, l2 \in {"atp_250", None} :
        LET data == {CompetitionRow(1, c1, l1), CompetitionRow(2, c2, l2)}
            at(categories) ==
                apply_filters(data, categories, OptionsOf(data, "type"), OptionsOf(data, "gender"),
                              OptionsOf(data, "level"), "All")
        IN  \E wide \in SUBSET OptionsOf(data, "category_name") :
                \E narrow \in SUBSET wide :
                    Extraction("filters", [data |-> data, wide |-> wide, narrow |-> narrow],
                               Filtered("Competitions", data, at(OptionsOf(data, "category_name")),
                                        at(wide), at(narrow)))

\* 2_Complexes_Venues.py: the Countries multiselect
FilterVenues ==
    /\ extOp = "none"
    /\ \E n1, n2 \in {"England", "France", None} :
        LET data == {VenueRow(1, n1), VenueRow(2, n2)}
            at(countries) ==
                venues_apply_filters(data, countries, OptionsOf(data, "timezone"),
                                     OptionsOf(data, "complex_name"))
        IN  \E wide \in SUBSET OptionsOf(data, "country_name") :
                \E narrow \in SUBSET wide :
                    Extraction("filters", [data |-> data, wide |-> wide, narrow |-> narrow],
                               Filtered("Venues", data, at(OptionsOf(data, "country_name")),
                                        at(wide), at(narrow)))

\* 3_Competitor_Rankings.py: the Countries multiselect, the sliders at their defaults
FilterRankingsPage ==
    /\ extOp = "none"
    /\ \E n1, n2 \in {"France", "Spain", None} :
        LET data == {RankingRow(1, n1), RankingRow(2, n2)}
            at(countries) == rankings_apply_filters(data, countries, <<1, 2>>)
        IN  \E wide \in SUBSET OptionsOf(data, "country") :
                \E narrow \in SUBSET wide :
                    Extraction("filters", [data |-> data, wide |-> wide, narrow |-> narrow],
                               Filtered("Rankings", data, at(OptionsOf(data, "country")),
                                        at(wide), at(narrow)))

\* Home.py: the Categories multiselect, whose default is the empty selection
FilterHome ==
    /\ extOp = "none"
    /\ \E c1, c2 \in {"ATP", "WTA", None}, l1, l2 \in {"atp_250", None} :
        LET data == {CompetitionRow(1, c1, l1), CompetitionRow(2, c2, l2)}
            at(categories) == apply_competition_filters(data, categories, {}, {}, {})
        IN  \E wide \in SUBSET OptionsOf(data, "category_name") :
                \E narrow \in SUBSET wide :
                    Extraction("filters", [data |-> data, wide |-> wide, narrow |-> narrow],
                               Filtered("Home", data, at({}), at(wide), at(narrow)))

FiltersNext ==
    \/ FilterCompetitions
    \/ FilterVenues
    \/ FilterRankingsPage
    \/ FilterHome

SpecFilters == Init /\ [][FiltersNext]_vars

\* C27: on the Competitions page and on the Complexes & Venues page the filtered dataset
\* equals the base dataset when every filter control is at its default, also for competitions
\* with a null level or category and for complexes without a venue.
C27_DefaultsKeepEveryRow ==
    (extOp = "filters" /\ extResult.page \in {"Competitions", "Venues"}) =>
        extResult.by_default = extData.data

\* C28: multiselect filters are monotone: the rows that pass with a part of a selection are
\* among the rows that pass with the selection, also when the part is the empty selection.
C28_MultiselectMonotone ==
    extOp = "filters" => extResult.narrow \subseteq extResult.wide

\* what does hold: a non-empty part of a selection never lets more rows pass
NonEmptySelectionsMonotone ==
    (extOp = "filters" /\ extData.narrow # {}) => extResult.narrow \subseteq extResult.wide

(***************************************************************************)
(* Failed dataset queries across reruns (specification SpecDash)           *)
(***************************************************************************)
\* C29: a failed dataset query is not memoized: when an earlier execution of a page's dataset
\* query failed, a later run of the page in the same dashboard process executes the query
\* again.
C29_FailedQueryRetried ==
    [][runs' # runs =>
        \A f \in DOMAIN shown'.data :
            (data_cache[f].cached /\ ~data_cache[f].frame.cols) => queried'[f] = queried[f] + 1]_vars

\* a page run after its query had failed shows the frame of the failure although the store
\* holds rows for it
FailureShownAgain ==
    /\ runs = 2
    /\ page = "Competitions"
    /\ queried["load_competitions"] = 1
    /\ ~shown.data["load_competitions"].cols
    /\ Select("load_competitions", db) # {}

(***************************************************************************)
(* The two movement bucketings of Home.py (specification SpecMomentum)     *)
(***************************************************************************)
\* C30: every ranking row of the momentum focus is assigned exactly one of the six movement
\* buckets, and the momentum bar chart and the bubble chart assign the same bucket to the same
\* movement, for every integer movement (-50 and values beyond -50 or 50 included).
C30_BucketsAgree ==
    extOp = "momentum" =>
        \A row \in extData :
            /\ extResult.bar_bucket[row] \in Range(labels)
            /\ \E b \in extResult.bubble_df :
                /\ b.competitor_id = row.competitor_id
                /\ b.movement = row.movement
                /\ b.movement_bucket = extResult.bar_bucket[row]

\* what does hold: for a movement from -49 to 50 both charts assign the same single bucket
BucketsAgreeInside ==
    extOp = "momentum" =>
        \A row \in extData :
            (row.movement > bins[1] /\ row.movement <= bins[Len(bins)]) =>
                /\ extResult.bar_bucket[row] \in Range(labels)
                /\ \A b \in extResult.bubble_df :
                    (b.competitor_id = row.competitor_id /\ b.movement = row.movement)
                        => b.movement_bucket = extResult.bar_bucket[row]
                /\ \E b \in extResult.bubble_df :
                    b.competitor_id = row.competitor_id /\ b.movement = row.movement

====
